---------------------------- MODULE Spec2Model ----------------------------
(***************************************************************************)
(* Model of the schema catalog of the driver (src/src/metadata.hpp,        *)
(* src/src/metadata.cpp): class Metadata with its two InternalData         *)
(* generations (front_, back_), the updating_ selector, the snapshot       *)
(* version counter and the mutex, the KeyspaceMetadata / TableMetadata     *)
(* entity model, and the reader operation schema_snapshot().               *)
(*                                                                         *)
(* Strings that the code builds character by character (canonical          *)
(* function names) are sequences of one-character strings; names that the  *)
(* code only compares are TLA+ strings.                                    *)
(*                                                                         *)
(* CopyOnWritePtr<T> (copy_on_write_ptr.hpp) is not part of the sources    *)
(* at hand; it is modelled from its specification: a non-const access      *)
(* through a handle that has other holders first gives the accessing       *)
(* holder a private copy.  The keyspace map handles (front_, back_, the    *)
(* handle inside a SchemaSnapshot) are explicit references into the heap   *)
(* kmaps; the four copy-on-write collections inside a KeyspaceMetadata     *)
(* are held by value, which is what copy-on-write gives each holder.       *)
(* TableMetadata objects are held through SharedRefPtr and are mutable in  *)
(* place, so they live in the heap tobjs and the table maps hold their     *)
(* identities.                                                             *)
(***************************************************************************)
EXTENDS Integers, Sequences, FiniteSets, TLC

VARIABLES
  version,     \* Metadata::schema_snapshot_version_
  updating,    \* Metadata::updating_ : "front" or "back"
  front,       \* front_.keyspaces_ : identity of a keyspace map in kmaps
  back,        \* back_.keyspaces_  : identity of a keyspace map in kmaps
  kmaps,       \* heap of KeyspaceMetadata::Map objects behind the handles
  tobjs,       \* heap of TableMetadata objects behind TableMetadata::Ptr
  mutex,       \* Metadata::mutex_ : "free" or "writer"
  pc,          \* position of the single writer thread inside its call
  call,        \* the writer's current call: operation, arguments, locals
  snapshots,   \* the SchemaSnapshot objects handed out so far
  cassandra_version, \* major number of Metadata::cassandra_version_
  ncalls,      \* number of writer calls started
  rebuild,     \* record of the running rebuild: the front content when
               \* clear_and_update_back was called, and whether only
               \* update_* and drop_* calls followed it
  budget,      \* the bounds of the run: calls of the writer, snapshots
  ret,         \* the last call of a const or static function: its name,
               \* its arguments and what it returned
  reading      \* position of each reader thread inside schema_snapshot():
               \* "idle", "waiting" for the mutex, or "locked"

vars == <<version, updating, front, back, kmaps, tobjs, mutex, pc, call,
          snapshots, cassandra_version, ncalls, rebuild, budget, ret, reading>>

----------------------------------------------------------------------------
(* Bounds of the model *)

\* calls of the writer and snapshots in a run of Spec
MaxCalls == 3

MaxSnapshots == 1

\* calls of the writer and snapshots in a run of SpecReaders
MaxReaderCalls == 2

MaxReaderSnapshots == 2

\* rows of a result set; rows of columns_result

MaxRows == 1

MaxColumnRows == 2

\* rows of a result set in a run of SpecPure
MaxPureRows == 3

\* arguments of a signature
MaxArguments == 3

\* column rows of one table in a run of SpecPure
MaxColumns == 4

\* rows of tables_result in a run of SpecPure
MaxPureTableRows == 2

\* column rows of a table of a legacy server in a run of SpecPure
MaxLegacyColumns == 2

\* reader threads, and the calls of the writer and of the readers in a run
\* of SpecLive
MaxReaders == 2
MaxLiveCalls == 1
MaxLiveSnapshots == 2

Readers == 1..MaxReaders

\* rows of system.schema_functions ingested before the aggregates that
\* refer to them
MaxReferencedFunctions == 2

\* columns of a table handed to a positional accessor
MaxAccessorColumns == 2

\* component types of a key_validator, elements of key_aliases
MaxComponents == 3

----------------------------------------------------------------------------
(* Generic helpers: std::map as a function with a finite domain *)

EmptyMap == [x \in {} |-> 0]

MapPut(m, k, v) == [x \in (DOMAIN m) \cup {k} |-> IF x = k THEN v ELSE m[x]]

MapErase(m, k) == [x \in (DOMAIN m) \ {k} |-> m[x]]

Range(f) == {f[x] : x \in DOMAIN f}

Restrict(f, S) == [x \in (DOMAIN f) \cap S |-> f[x]]

SeqsUpTo(S, n) == UNION {[1..k -> S] : k \in 0..n}

\* operator new: the smallest identity not in use
NewId(used) == CHOOSE i \in 1..(Cardinality(used) + 1) : i \notin used


----------------------------------------------------------------------------
(* Rows of a result set.  A row is a function from the names of the        *)
(* columns it carries to their values; a column the row does not carry is  *)
(* outside its domain (Row::get_by_name returns NULL).                     *)

\* Row::get_string_by_name: false when the row has no such column
get_string_by_name(row, name) == name \in DOMAIN row

\* Value::size() of the column name of row.  The bytes of a value are not
\* modelled: a column the server sent without bytes (a null) is listed in
\* the entry null_columns of the row, every other column has bytes.
Value_size(row, name) ==
  IF "null_columns" \in DOMAIN row /\ name \in row["null_columns"] THEN 0 ELSE 1

\* MetadataField(name): a field without value
MetadataField_name(name) == [name |-> name]

\* MetadataField(name, value, buffer)
MetadataField_value(name, value) == [name |-> name, value |-> value]

\* the field map has a field name that holds a value
HasValue(fields, name) == name \in DOMAIN fields /\ "value" \in DOMAIN fields[name]

\* variant: a column without bytes is treated as an absent one
add_field_skip(fields, row, name) ==
  IF name \notin DOMAIN row THEN fields
  ELSE IF Value_size(row, name) <= 0 THEN fields
  ELSE MapPut(fields, name, MetadataField_value(name, row[name]))

\* MetadataBase::add_field: an absent column leaves the fields alone, a
\* column without bytes gives a field without value, otherwise the field is
\* (re)placed with the value
add_field(fields, row, name) ==
  IF name \notin DOMAIN row THEN fields
  ELSE IF Value_size(row, name) <= 0 THEN MapPut(fields, name, MetadataField_name(name))
  ELSE MapPut(fields, name, MetadataField_value(name, row[name]))

\* rapidjson::Document::ParseInsitu.  A JSON text is modelled by its
\* tokens: the punctuation marks, and every other token a string literal
\* or the word null.  The document is an array of string literals, an
\* object of string members, a single value, or has a parse error.
Punctuation == {"[", "]", "{", "}", ",", ":"}

ParseInsitu(text) ==
  LET n == Len(text)
      inner == IF n >= 2 THEN SubSeq(text, 2, n - 1) ELSE <<>>
      m == Len(inner)
      literal(i) == inner[i] \notin Punctuation /\ inner[i] # "null"
      elements == m = 0 \/ (/\ m % 2 = 1
                            /\ \A i \in 1..m : IF i % 2 = 1 THEN literal(i)
                                                ELSE inner[i] = ",")
      members == m = 0 \/ (/\ m % 4 = 3
                           /\ \A i \in 1..m : CASE i % 4 = 1 -> literal(i)
                                                 [] i % 4 = 2 -> inner[i] = ":"
                                                 [] i % 4 = 3 -> literal(i)
                                                 [] OTHER -> inner[i] = ",")
  IN IF n >= 2 /\ text[1] = "[" /\ text[n] = "]" /\ elements
     THEN [HasParseError |-> FALSE, type |-> "array",
           strings |-> [i \in 1..((m + 1) \div 2) |-> inner[2 * i - 1]]]
     ELSE IF n >= 2 /\ text[1] = "{" /\ text[n] = "}" /\ members
     THEN [HasParseError |-> FALSE, type |-> "object",
           strings |-> [i \in 1..((m + 1) \div 2) |-> inner[2 * i - 1]]]
     ELSE IF n = 1 /\ text[1] \notin Punctuation
     THEN [HasParseError |-> FALSE, type |-> "value", strings |-> <<>>]
     ELSE [HasParseError |-> TRUE, type |-> "none", strings |-> <<>>]

\* the Value a JSON loader stores: a list of text or a map of text to text
\* with count elements, over the strings the loader appended
CollectionValue(value_type, count, strings) ==
  [value_type |-> value_type, count |-> count, items |-> strings]

\* MetadataBase::add_json_list_field
add_json_list_field(fields, row, name) ==
  IF name \notin DOMAIN row THEN fields
  ELSE IF Value_size(row, name) <= 0 THEN MapPut(fields, name, MetadataField_name(name))
  ELSE LET d == ParseInsitu(row[name]) IN
       IF d.HasParseError THEN fields
       ELSE IF d.type # "array" THEN MapPut(fields, name, MetadataField_name(name))
       ELSE MapPut(fields, name,
                   MetadataField_value(name,
                     CollectionValue("CASS_VALUE_TYPE_LIST", Len(d.strings), d.strings)))

\* MetadataBase::add_json_map_field
add_json_map_field(fields, row, name) ==
  IF name \notin DOMAIN row THEN fields
  ELSE IF Value_size(row, name) <= 0 THEN MapPut(fields, name, MetadataField_name(name))
  ELSE LET d == ParseInsitu(row[name]) IN
       IF d.HasParseError THEN fields
       ELSE IF d.type # "object" THEN MapPut(fields, name, MetadataField_name(name))
       ELSE MapPut(fields, name,
                   MetadataField_value(name,
                     CollectionValue("CASS_VALUE_TYPE_MAP", Len(d.strings) \div 2, d.strings)))

RECURSIVE add_fields(_, _, _)
add_fields(fields, row, names) ==
  IF names = <<>> THEN fields
  ELSE add_fields(add_field(fields, row, Head(names)), row, Tail(names))

----------------------------------------------------------------------------
(* ColumnMetadata *)

CASS_COLUMN_TYPE_REGULAR == "REGULAR"
CASS_COLUMN_TYPE_PARTITION_KEY == "PARTITION_KEY"
CASS_COLUMN_TYPE_CLUSTERING_KEY == "CLUSTERING_KEY"
CASS_COLUMN_TYPE_STATIC == "STATIC"

\* the null ColumnMetadata::Ptr that vector::resize fills new slots with
NullColumn == [name |-> <<>>, type |-> "NULL", position |-> 0, data_type |-> "NULL"]

\* variant: the constructor leaves the position at 0
ColumnMetadata_key_zero(name, position, type, data_type) ==
  [name |-> name, type |-> type, position |-> 0, data_type |-> data_type]

\* ColumnMetadata(name, position, type, data_type)
ColumnMetadata_key(name, position, type, data_type) ==
  [name |-> name, type |-> type, position |-> position, data_type |-> data_type]

\* ColumnMetadata(name, version, buffer, row)
ColumnMetadata_row(name, row) ==
  [name |-> name,
   type |-> IF "type" \in DOMAIN row
            THEN (IF row["type"] = "partition_key" THEN CASS_COLUMN_TYPE_PARTITION_KEY
                  ELSE IF row["type"] = "clustering_key" THEN CASS_COLUMN_TYPE_CLUSTERING_KEY
                  ELSE IF row["type"] = "static" THEN CASS_COLUMN_TYPE_STATIC
                  ELSE CASS_COLUMN_TYPE_REGULAR)
            ELSE CASS_COLUMN_TYPE_REGULAR,
   position |-> IF "component_index" \in DOMAIN row THEN row["component_index"] ELSE 0,
   data_type |-> IF "validator" \in DOMAIN row THEN row["validator"] ELSE "NULL"]

\* variant: the comparison looks at the column types only
ColumnCompare_types(a, b) ==
  a.type # b.type
  /\ (a.type = CASS_COLUMN_TYPE_PARTITION_KEY
      \/ (a.type = CASS_COLUMN_TYPE_CLUSTERING_KEY /\ b.type # CASS_COLUMN_TYPE_PARTITION_KEY))

\* struct ColumnCompare: the order used by std::stable_sort
ColumnCompare(a, b) ==
  IF a.type = b.type
  THEN (a.type = CASS_COLUMN_TYPE_PARTITION_KEY \/ a.type = CASS_COLUMN_TYPE_CLUSTERING_KEY)
       /\ a.position < b.position
  ELSE a.type = CASS_COLUMN_TYPE_PARTITION_KEY
       \/ (a.type = CASS_COLUMN_TYPE_CLUSTERING_KEY /\ b.type # CASS_COLUMN_TYPE_PARTITION_KEY)

\* std::stable_sort(columns_.begin(), columns_.end(), ColumnCompare()):
\* insertion of each element behind the last element it is not less than
RECURSIVE InsertSorted(_, _)
InsertSorted(sorted, x) ==
  IF sorted = <<>> THEN <<x>>
  ELSE IF ColumnCompare(x, sorted[Len(sorted)])
       THEN Append(InsertSorted(SubSeq(sorted, 1, Len(sorted) - 1), x), sorted[Len(sorted)])
       ELSE Append(sorted, x)

RECURSIVE stable_sort(_)
stable_sort(s) ==
  IF s = <<>> THEN <<>>
  ELSE InsertSorted(stable_sort(SubSeq(s, 1, Len(s) - 1)), s[Len(s)])

\* variant: every column is counted
get_column_count_all(columns, type) ==
  Len(columns)

\* get_column_count(columns, type)
get_column_count(columns, type) ==
  Cardinality({i \in 1..Len(columns) : columns[i].type = type})

\* std::vector::resize(n): truncate, or pad with null pointers
Resize(s, n) ==
  [i \in 1..n |-> IF i <= Len(s) THEN s[i] ELSE NullColumn]

----------------------------------------------------------------------------
(* TableMetadata *)

TableFieldNames == <<"keyspace_name", "columnfamily_name", "comment",
                     "column_aliases", "comparator", "key_aliases", "key_validator">>

\* TableMetadata(name)
TableMetadata_name(name) ==
  [name |-> name, fields |-> EmptyMap, columns |-> <<>>, columns_by_name |-> EmptyMap,
   partition_key |-> <<>>, clustering_key |-> <<>>]

\* TableMetadata(name, version, buffer, row).  The rows carry key_aliases
\* and column_aliases as the list of names and the validators as their
\* parse result, so these columns are loaded as add_field loads them;
\* compression_parameters is carried as its JSON text.
TableMetadata_row(name, row) ==
  [name |-> name,
   fields |-> add_fields(add_json_map_field(add_fields(EmptyMap, row, TableFieldNames),
                                            row, "compression_parameters"),
                         row, <<"default_validator">>),
   columns |-> <<>>, columns_by_name |-> EmptyMap,
   partition_key |-> <<>>, clustering_key |-> <<>>]

\* TableMetadata::add_column
add_column(t, column) ==
  [t EXCEPT !.columns = Append(@, column),
            !.columns_by_name = MapPut(@, column.name, column)]

\* TableMetadata::clear_columns
clear_columns(t) ==
  [t EXCEPT !.columns = <<>>, !.columns_by_name = EmptyMap,
            !.partition_key = <<>>, !.clustering_key = <<>>]

\* the first loop of the modern branch of build_keys_and_sort: each key
\* column with a position inside the allocated range is stored at it
RECURSIVE PlaceKeys(_, _, _)
PlaceKeys(columns, pk, ck) ==
  IF columns = <<>> THEN [partition_key |-> pk, clustering_key |-> ck]
  ELSE LET column == Head(columns) IN
       IF column.type = CASS_COLUMN_TYPE_PARTITION_KEY
          /\ column.position >= 0 /\ column.position < Len(pk)
       THEN PlaceKeys(Tail(columns), [pk EXCEPT ![column.position + 1] = column], ck)
       ELSE IF column.type = CASS_COLUMN_TYPE_CLUSTERING_KEY
               /\ column.position >= 0 /\ column.position < Len(ck)
            THEN PlaceKeys(Tail(columns), pk, [ck EXCEPT ![column.position + 1] = column])
            ELSE PlaceKeys(Tail(columns), pk, ck)


\* operator<< of an integer: its decimal digits
RECURSIVE Decimal(_)
Decimal(n) ==
  LET d == <<"0", "1", "2", "3", "4", "5", "6", "7", "8", "9">>[(n % 10) + 1] IN
  IF n < 10 THEN <<d>> ELSE Append(Decimal(n \div 10), d)

\* std::ostringstream ss(base); ss << text; ss.str() -- the stream is opened
\* without ios_base::ate, so its put position is the beginning of base and
\* the text written replaces the leading characters
ostringstream_put(base, text) ==
  IF Len(text) >= Len(base) THEN text
  ELSE text \o SubSeq(base, Len(text) + 1, Len(base))

\* the name build_keys_and_sort gives a key component without alias
SynthesizedAlias(base, i) ==
  IF i > 0 THEN ostringstream_put(base, Decimal(i + 1)) ELSE base

\* TypeParser::parse_with_composite(get_string_field(name)): the field holds
\* the type string, modelled by its parse result
\* [types, is_composite, collections]
ParseOfEmptyString == [types |-> <<>>, is_composite |-> FALSE, collections |-> FALSE]

parse_with_composite(t, name) ==
  IF HasValue(t.fields, name) THEN t.fields[name].value ELSE ParseOfEmptyString

\* CollectionIterator over get_field(name): the strings of the list field
list_field(t, name) ==
  IF HasValue(t.fields, name) THEN t.fields[name].value ELSE <<>>

\* the partition key loop of the legacy branch
RECURSIVE LegacyPartitionKey(_, _, _, _)
LegacyPartitionKey(pk, key_aliases, types, i) ==
  IF i >= Len(types) THEN pk
  ELSE LET key_alias == IF i < Len(key_aliases) THEN key_aliases[i + 1]
                        ELSE SynthesizedAlias(<<"k", "e", "y">>, i)
       IN LegacyPartitionKey(
            Append(pk, ColumnMetadata_key(key_alias, Len(pk),
                                          CASS_COLUMN_TYPE_PARTITION_KEY, types[i + 1])),
            key_aliases, types, i + 1)

\* variant: the last component is dropped only without embedded collections
LegacyClusteringSize_plain(comparator, column_aliases, columns) ==
  LET size == Len(comparator.types) IN
  IF comparator.is_composite
  THEN IF ~comparator.collections
          /\ (Len(column_aliases) = size - 1
              /\ comparator.types[Len(comparator.types)] = "text")
       THEN size - 1 ELSE size
  ELSE IF column_aliases # <<>> \/ columns = <<>> THEN size ELSE 0

\* variant: a comparator that is not composite gives a clustering key also
\* when the table has columns
LegacyClusteringSize_dense(comparator, column_aliases, columns) ==
  LET size == Len(comparator.types) IN
  IF comparator.is_composite
  THEN IF comparator.collections
          \/ (Len(column_aliases) = size - 1
              /\ comparator.types[Len(comparator.types)] = "text")
       THEN size - 1 ELSE size
  ELSE size

\* the number of clustering key components of the legacy branch
LegacyClusteringSize(comparator, column_aliases, columns) ==
  LET size == Len(comparator.types) IN
  IF comparator.is_composite
  THEN IF comparator.collections
          \/ (Len(column_aliases) = size - 1
              /\ comparator.types[Len(comparator.types)] = "text")
       THEN size - 1 ELSE size
  ELSE IF column_aliases # <<>> \/ columns = <<>> THEN size ELSE 0

\* the clustering key loop of the legacy branch
RECURSIVE LegacyClusteringKey(_, _, _, _, _)
LegacyClusteringKey(ck, column_aliases, types, size, i) ==
  IF i >= size THEN ck
  ELSE LET column_alias == IF i < Len(column_aliases) THEN column_aliases[i + 1]
                           ELSE SynthesizedAlias(<<"c", "o", "l", "u", "m", "n">>, i)
       IN LegacyClusteringKey(
            Append(ck, ColumnMetadata_key(column_alias, Len(ck),
                                          CASS_COLUMN_TYPE_CLUSTERING_KEY, types[i + 1])),
            column_aliases, types, size, i + 1)

\* variant: the legacy branch puts the key columns behind the loaded columns
build_keys_and_sort_behind(t, major) ==
  IF major >= 2
  THEN LET keys == PlaceKeys(t.columns,
                     Resize(t.partition_key,
                            get_column_count(t.columns, CASS_COLUMN_TYPE_PARTITION_KEY)),
                     Resize(t.clustering_key,
                            get_column_count(t.columns, CASS_COLUMN_TYPE_CLUSTERING_KEY)))
       IN [t EXCEPT !.partition_key = keys.partition_key,
                    !.clustering_key = keys.clustering_key,
                    !.columns = stable_sort(t.columns)]
  ELSE LET key_validator == parse_with_composite(t, "key_validator")
           pk == LegacyPartitionKey(t.partition_key, list_field(t, "key_aliases"),
                                    key_validator.types, 0)
           comparator == parse_with_composite(t, "comparator")
           column_aliases == list_field(t, "column_aliases")
           size == LegacyClusteringSize(comparator, column_aliases, t.columns)
           ck == LegacyClusteringKey(t.clustering_key, column_aliases,
                                     comparator.types, size, 0)
       IN [t EXCEPT !.partition_key = pk,
                    !.clustering_key = ck,
                    !.columns = t.columns \o pk \o ck]

\* TableMetadata::build_keys_and_sort(cassandra_version), major the major
\* number of the version
build_keys_and_sort(t, major) ==
  IF major >= 2
  THEN LET keys == PlaceKeys(t.columns,
                     Resize(t.partition_key,
                            get_column_count(t.columns, CASS_COLUMN_TYPE_PARTITION_KEY)),
                     Resize(t.clustering_key,
                            get_column_count(t.columns, CASS_COLUMN_TYPE_CLUSTERING_KEY)))
       IN [t EXCEPT !.partition_key = keys.partition_key,
                    !.clustering_key = keys.clustering_key,
                    !.columns = stable_sort(t.columns)]
  ELSE LET key_validator == parse_with_composite(t, "key_validator")
           pk == LegacyPartitionKey(t.partition_key, list_field(t, "key_aliases"),
                                    key_validator.types, 0)
           comparator == parse_with_composite(t, "comparator")
           column_aliases == list_field(t, "column_aliases")
           size == LegacyClusteringSize(comparator, column_aliases, t.columns)
           ck == LegacyClusteringKey(t.clustering_key, column_aliases,
                                     comparator.types, size, 0)
       IN [t EXCEPT !.partition_key = pk,
                    !.clustering_key = ck,
                    !.columns = pk \o ck \o t.columns]


----------------------------------------------------------------------------
(* Signature resolver *)

\* argument.erase(std::remove_if(..., ::isspace), ...)
RemoveWhiteSpace(argument) == SelectSeq(argument, LAMBDA c : c # " ")

RECURSIVE AppendArguments(_, _, _)
AppendArguments(full_function_name, signature, i) ==
  IF i > Len(signature) THEN full_function_name
  ELSE LET argument == RemoveWhiteSpace(signature[i]) IN
       AppendArguments(
         IF argument # <<>>
         THEN (IF i # 1 THEN Append(full_function_name, ",") ELSE full_function_name)
              \o argument
         ELSE full_function_name,
         signature, i + 1)

\* std::getline(stream, argument, ',') of append_arguments, repeated until
\* the stream is at its end: the pieces of arguments between the commas
RECURSIVE GetLines(_, _, _)
GetLines(arguments, argument, pieces) ==
  IF arguments = <<>> THEN Append(pieces, argument)
  ELSE IF Head(arguments) = "," THEN GetLines(Tail(arguments), <<>>, Append(pieces, argument))
  ELSE GetLines(Tail(arguments), Append(argument, Head(arguments)), pieces)

\* the while loop of append_arguments, with its flag first
RECURSIVE AppendPieces(_, _, _)
AppendPieces(full_name, pieces, first) ==
  IF pieces = <<>> THEN full_name
  ELSE LET argument == RemoveWhiteSpace(Head(pieces)) IN
       IF argument # <<>>
       THEN AppendPieces((IF ~first THEN Append(full_name, ",") ELSE full_name) \o argument,
                         Tail(pieces), FALSE)
       ELSE AppendPieces(full_name, Tail(pieces), first)

\* append_arguments(full_name, arguments)
append_arguments(full_name, arguments) ==
  Append(AppendPieces(Append(full_name, "("), GetLines(arguments, <<>>, <<>>), TRUE), ")")

\* Metadata::full_function_name(name, signature)
full_function_name(name, signature) ==
  Append(AppendArguments(Append(name, "("), signature, 1), ")")

----------------------------------------------------------------------------
(* FunctionMetadata, AggregateMetadata, UserType *)

\* the unset FunctionMetadata::Ptr
NullFunction == [name |-> <<>>, simple_name |-> <<>>, fields |-> EmptyMap]

FunctionFieldNames == <<"keyspace_name", "function_name", "argument_names",
                        "argument_types", "return_type", "body", "language",
                        "called_on_null_input">>

\* the loop of the FunctionMetadata constructor over argument_names and
\* argument_types: one Argument per pair, until either list ends
FunctionArguments(row) ==
  IF "argument_names" \in DOMAIN row /\ "argument_types" \in DOMAIN row
  THEN LET names == row["argument_names"]
           types == row["argument_types"]
           count == IF Len(names) < Len(types) THEN Len(names) ELSE Len(types)
       IN [i \in 1..count |-> [name |-> names[i], type |-> types[i]]]
  ELSE <<>>

\* FunctionMetadata(name, signature, buffer, row)
FunctionMetadata(name, signature, row) ==
  [name |-> full_function_name(name, signature),
   simple_name |-> name,
   fields |-> add_fields(EmptyMap, row, FunctionFieldNames),
   args |-> FunctionArguments(row)]

\* variant: a name that is not found resolves to some function of the map
FindFunction_any(functions, full_name) ==
  IF full_name \in DOMAIN functions THEN functions[full_name]
  ELSE IF DOMAIN functions # {} THEN functions[CHOOSE k \in DOMAIN functions : TRUE]
  ELSE NullFunction

\* functions.find(full_name): the function found, or the unset pointer
FindFunction(functions, full_name) ==
  IF full_name \in DOMAIN functions THEN functions[full_name] ELSE NullFunction

\* TypeParser::parse_one(text)->to_string(): the type strings of the model
\* are canonical names, which the parser and the printer leave as they are
DataType_to_string(type_string) == type_string

AggregateFieldNames == <<"keyspace_name", "aggregate_name", "argument_types",
                         "return_type", "state_type", "final_func", "state_func",
                         "initcond">>

\* variant: final_func is looked up with the signature of state_func
AggregateMetadata_final_as_state(name, signature, functions, row) ==
  LET state_type == IF "state_type" \in DOMAIN row THEN row["state_type"] ELSE <<>> IN
  [name |-> full_function_name(name, signature),
   simple_name |-> name,
   fields |-> add_fields(EmptyMap, row, AggregateFieldNames),
   arg_types |-> IF "argument_types" \in DOMAIN row THEN row["argument_types"] ELSE <<>>,
   state_type |-> state_type,
   final_func |-> IF "final_func" \in DOMAIN row
                  THEN FindFunction(functions,
                         full_function_name(row["final_func"],
                                            <<DataType_to_string(state_type)>> \o signature))
                  ELSE NullFunction,
   state_func |-> IF "state_func" \in DOMAIN row
                  THEN FindFunction(functions,
                         full_function_name(row["state_func"],
                                            <<DataType_to_string(state_type)>> \o signature))
                  ELSE NullFunction]

\* AggregateMetadata(name, signature, functions, version, buffer, row)
AggregateMetadata(name, signature, functions, row) ==
  LET state_type == IF "state_type" \in DOMAIN row THEN row["state_type"] ELSE <<>> IN
  [name |-> full_function_name(name, signature),
   simple_name |-> name,
   fields |-> add_fields(EmptyMap, row, AggregateFieldNames),
   arg_types |-> IF "argument_types" \in DOMAIN row THEN row["argument_types"] ELSE <<>>,
   state_type |-> state_type,
   final_func |-> IF "final_func" \in DOMAIN row
                  THEN FindFunction(functions,
                         full_function_name(row["final_func"],
                                            <<DataType_to_string(state_type)>>))
                  ELSE NullFunction,
   state_func |-> IF "state_func" \in DOMAIN row
                  THEN FindFunction(functions,
                         full_function_name(row["state_func"],
                                            <<DataType_to_string(state_type)>> \o signature))
                  ELSE NullFunction]

\* an element of field_names / field_types that is null
NullElement == <<"<null>">>

\* TypeParser::parse_one failing on a type string
UnparsableType == <<"?">>

\* the while loop of update_user_types: the fields collected before the loop
\* ends or breaks
RECURSIVE UserTypeFields(_, _, _)
UserTypeFields(names, types, fields) ==
  IF names = <<>> THEN fields
  ELSE IF types = <<>> THEN fields
  ELSE IF Head(names) = NullElement \/ Head(types) = NullElement THEN fields
  ELSE IF Head(types) = UnparsableType THEN fields
  ELSE UserTypeFields(Tail(names), Tail(types),
                      Append(fields, [name |-> Head(names), type |-> Head(types)]))

\* UserType(keyspace_name, type_name, fields)
UserType(keyspace_name, type_name, fields) ==
  [keyspace |-> keyspace_name, type_name |-> type_name, fields |-> fields]

----------------------------------------------------------------------------
(* KeyspaceMetadata.  Its four CopyOnWritePtr collections are held by value. *)

\* KeyspaceMetadata(name)
KeyspaceMetadata(name) ==
  [name |-> name, fields |-> EmptyMap, tables |-> EmptyMap, user_types |-> EmptyMap,
   functions |-> EmptyMap, aggregates |-> EmptyMap]

\* KeyspaceMetadata::update
KeyspaceMetadata_update(ks, row) ==
  [ks EXCEPT !.fields =
     add_json_map_field(add_fields(@, row, <<"keyspace_name", "durable_writes",
                                             "strategy_class">>),
                        row, "strategy_options")]

\* KeyspaceMetadata::add_table: table is the identity of the object
add_table(ks, name, table) == [ks EXCEPT !.tables = MapPut(@, name, table)]

\* KeyspaceMetadata::drop_table
KeyspaceMetadata_drop_table(ks, table_name) ==
  [ks EXCEPT !.tables = MapErase(@, table_name)]

\* KeyspaceMetadata::add_user_type
add_user_type(ks, user_type) ==
  [ks EXCEPT !.user_types = MapPut(@, user_type.type_name, user_type)]

\* KeyspaceMetadata::drop_user_type
KeyspaceMetadata_drop_user_type(ks, type_name) ==
  [ks EXCEPT !.user_types = MapErase(@, type_name)]

\* variant: functions are kept under their simple names
add_function_simple(ks, function) ==
  [ks EXCEPT !.functions = MapPut(@, function.simple_name, function)]

\* KeyspaceMetadata::add_function
add_function(ks, function) ==
  [ks EXCEPT !.functions = MapPut(@, function.name, function)]

\* variant: the aggregates that refer to the dropped function lose their
\* reference
KeyspaceMetadata_drop_function_unlink(ks, full_name) ==
  [ks EXCEPT !.functions = MapErase(@, full_name),
             !.aggregates =
               [a \in DOMAIN @ |->
                  [@[a] EXCEPT !.state_func = IF @.name = full_name THEN NullFunction ELSE @,
                               !.final_func = IF @.name = full_name THEN NullFunction ELSE @]]]

\* KeyspaceMetadata::drop_function
KeyspaceMetadata_drop_function(ks, full_name) ==
  [ks EXCEPT !.functions = MapErase(@, full_name)]

\* KeyspaceMetadata::add_aggregate
add_aggregate(ks, aggregate) ==
  [ks EXCEPT !.aggregates = MapPut(@, aggregate.name, aggregate)]

\* KeyspaceMetadata::drop_aggregate
KeyspaceMetadata_drop_aggregate(ks, full_name) ==
  [ks EXCEPT !.aggregates = MapErase(@, full_name)]


----------------------------------------------------------------------------
(* Metadata::InternalData: the operations on one generation.  m is the     *)
(* keyspace map of the generation, to the heap of table objects.           *)

\* InternalData::get_or_create_keyspace
get_or_create_keyspace(m, name) ==
  IF name \in DOMAIN m THEN m ELSE MapPut(m, name, KeyspaceMetadata(name))

\* InternalData::update_keyspaces
RECURSIVE InternalData_update_keyspaces(_, _)
InternalData_update_keyspaces(m, rows) ==
  IF rows = <<>> THEN m
  ELSE LET row == Head(rows) IN
       IF ~get_string_by_name(row, "keyspace_name")
       THEN InternalData_update_keyspaces(m, Tail(rows))
       ELSE LET m1 == get_or_create_keyspace(m, row["keyspace_name"])
                k == row["keyspace_name"]
            IN InternalData_update_keyspaces(
                 [m1 EXCEPT ![k] = KeyspaceMetadata_update(@, row)], Tail(rows))

\* InternalData::update_user_types
RECURSIVE InternalData_update_user_types(_, _)
InternalData_update_user_types(m, rows) ==
  IF rows = <<>> THEN m
  ELSE LET row == Head(rows) IN
       IF ~get_string_by_name(row, "keyspace_name") \/ ~get_string_by_name(row, "type_name")
       THEN InternalData_update_user_types(m, Tail(rows))
       ELSE LET k == row["keyspace_name"]
                m1 == get_or_create_keyspace(m, k)
            IN IF "field_names" \notin DOMAIN row \/ "field_types" \notin DOMAIN row
               THEN InternalData_update_user_types(m1, Tail(rows))
               ELSE InternalData_update_user_types(
                      [m1 EXCEPT ![k] = add_user_type(@,
                          UserType(k, row["type_name"],
                                   UserTypeFields(row["field_names"], row["field_types"], <<>>)))],
                      Tail(rows))

\* InternalData::update_functions
RECURSIVE InternalData_update_functions(_, _)
InternalData_update_functions(m, rows) ==
  IF rows = <<>> THEN m
  ELSE LET row == Head(rows) IN
       IF ~get_string_by_name(row, "keyspace_name")
          \/ ~get_string_by_name(row, "function_name")
          \/ "signature" \notin DOMAIN row
       THEN InternalData_update_functions(m, Tail(rows))
       ELSE LET k == row["keyspace_name"]
                m1 == get_or_create_keyspace(m, k)
            IN InternalData_update_functions(
                 [m1 EXCEPT ![k] = add_function(@,
                     FunctionMetadata(row["function_name"], row["signature"], row))],
                 Tail(rows))

\* InternalData::update_aggregates
RECURSIVE InternalData_update_aggregates(_, _)
InternalData_update_aggregates(m, rows) ==
  IF rows = <<>> THEN m
  ELSE LET row == Head(rows) IN
       IF ~get_string_by_name(row, "keyspace_name")
          \/ ~get_string_by_name(row, "aggregate_name")
          \/ "signature" \notin DOMAIN row
       THEN InternalData_update_aggregates(m, Tail(rows))
       ELSE LET k == row["keyspace_name"]
                m1 == get_or_create_keyspace(m, k)
            IN InternalData_update_aggregates(
                 [m1 EXCEPT ![k] = add_aggregate(@,
                     AggregateMetadata(row["aggregate_name"], row["signature"],
                                       m1[k].functions, row))],
                 Tail(rows))

\* variant: drop_keyspace erases nothing
InternalData_drop_keyspace_keep(m, keyspace_name) == m

\* InternalData::drop_keyspace
InternalData_drop_keyspace(m, keyspace_name) == MapErase(m, keyspace_name)

\* variant: drop_table looks the keyspace up with get_or_create_keyspace
InternalData_drop_table_create(m, keyspace_name, table_name) ==
  [get_or_create_keyspace(m, keyspace_name)
     EXCEPT ![keyspace_name] = KeyspaceMetadata_drop_table(@, table_name)]

\* InternalData::drop_table
InternalData_drop_table(m, keyspace_name, table_name) ==
  IF keyspace_name \notin DOMAIN m THEN m
  ELSE [m EXCEPT ![keyspace_name] = KeyspaceMetadata_drop_table(@, table_name)]

\* InternalData::drop_user_type
InternalData_drop_user_type(m, keyspace_name, type_name) ==
  IF keyspace_name \notin DOMAIN m THEN m
  ELSE [m EXCEPT ![keyspace_name] = KeyspaceMetadata_drop_user_type(@, type_name)]

\* InternalData::drop_function
InternalData_drop_function(m, keyspace_name, full_name) ==
  IF keyspace_name \notin DOMAIN m THEN m
  ELSE [m EXCEPT ![keyspace_name] = KeyspaceMetadata_drop_function(@, full_name)]

\* InternalData::drop_aggregate
InternalData_drop_aggregate(m, keyspace_name, full_name) ==
  IF keyspace_name \notin DOMAIN m THEN m
  ELSE [m EXCEPT ![keyspace_name] = KeyspaceMetadata_drop_aggregate(@, full_name)]

\* a result set has a row that passes the name checks of its loop, so the
\* loop reaches get_or_create_keyspace (the first non-const access to the
\* keyspace map of the generation)
HasValidRow(rows, names) ==
  \E i \in 1..Len(rows) : \A n \in names : n \in DOMAIN rows[i]

\* the table rows loop of InternalData::update_tables.  g carries the map m,
\* the table heap to and fresh, the identities of the objects created by the
\* running call
RECURSIVE update_tables_rows(_, _)
update_tables_rows(g, rows) ==
  IF rows = <<>> THEN g
  ELSE LET row == Head(rows) IN
       IF ~get_string_by_name(row, "keyspace_name")
          \/ ~get_string_by_name(row, "columnfamily_name")
       THEN update_tables_rows(g, Tail(rows))
       ELSE LET k == row["keyspace_name"]
                m1 == get_or_create_keyspace(g.m, k)
                id == NewId(DOMAIN g.to)
            IN update_tables_rows(
                 [m |-> [m1 EXCEPT ![k] = add_table(@, row["columnfamily_name"], id)],
                  to |-> MapPut(g.to, id, TableMetadata_row(row["columnfamily_name"], row)),
                  fresh |-> g.fresh \cup {id}],
                 Tail(rows))

\* KeyspaceMetadata::get_or_create_table on keyspace k of g: the identity of
\* the table found or created, and g with the created table
get_or_create_table(g, k, name) ==
  IF name \in DOMAIN g.m[k].tables
  THEN [table |-> g.m[k].tables[name], g |-> g]
  ELSE LET id == NewId(DOMAIN g.to) IN
       [table |-> id,
        g |-> [m |-> [g.m EXCEPT ![k] = add_table(@, name, id)],
               to |-> MapPut(g.to, id, TableMetadata_name(name)),
               fresh |-> g.fresh \cup {id}]]

\* variant: a row without its names makes the loop forget the current table
update_columns_row_forget(c, row, major) ==
  IF ~get_string_by_name(row, "keyspace_name")
     \/ ~get_string_by_name(row, "columnfamily_name")
     \/ ~get_string_by_name(row, "column_name")
  THEN [c EXCEPT !.columnfamily_name = ""]
  ELSE LET c1 == IF c.keyspace_name # row["keyspace_name"]
                 THEN [c EXCEPT !.keyspace_name = row["keyspace_name"],
                                !.g.m = get_or_create_keyspace(@, row["keyspace_name"])]
                 ELSE c
           c2 == IF c1.columnfamily_name # row["columnfamily_name"]
                 THEN LET built == IF c1.table # 0
                                   THEN [c1 EXCEPT !.g.to[c1.table] =
                                                      build_keys_and_sort(@, major)]
                                   ELSE c1
                          r == get_or_create_table(built.g, built.keyspace_name,
                                                   row["columnfamily_name"])
                      IN [built EXCEPT !.columnfamily_name = row["columnfamily_name"],
                                       !.table = r.table,
                                       !.g = [r.g EXCEPT !.to[r.table] = clear_columns(@)]]
                 ELSE c1
       IN [c2 EXCEPT !.g.to[c2.table] =
                        add_column(@, ColumnMetadata_row(row["column_name"], row))]

\* one iteration of the loop of InternalData::update_columns.  c carries g
\* and the locals keyspace_name, columnfamily_name and table (0 is the null
\* pointer)
update_columns_row(c, row, major) ==
  IF ~get_string_by_name(row, "keyspace_name")
     \/ ~get_string_by_name(row, "columnfamily_name")
     \/ ~get_string_by_name(row, "column_name")
  THEN c
  ELSE LET c1 == IF c.keyspace_name # row["keyspace_name"]
                 THEN [c EXCEPT !.keyspace_name = row["keyspace_name"],
                                !.g.m = get_or_create_keyspace(@, row["keyspace_name"])]
                 ELSE c
           c2 == IF c1.columnfamily_name # row["columnfamily_name"]
                 THEN LET built == IF c1.table # 0
                                   THEN [c1 EXCEPT !.g.to[c1.table] =
                                                      build_keys_and_sort(@, major)]
                                   ELSE c1
                          r == get_or_create_table(built.g, built.keyspace_name,
                                                   row["columnfamily_name"])
                      IN [built EXCEPT !.columnfamily_name = row["columnfamily_name"],
                                       !.table = r.table,
                                       !.g = [r.g EXCEPT !.to[r.table] = clear_columns(@)]]
                 ELSE c1
       IN [c2 EXCEPT !.g.to[c2.table] =
                        add_column(@, ColumnMetadata_row(row["column_name"], row))]

\* the end of InternalData::update_columns: keys of the last table
update_columns_end(c, major) ==
  IF c.table # 0
  THEN [c EXCEPT !.g.to[c.table] = build_keys_and_sort(@, major)]
  ELSE c

\* the loop of InternalData::update_columns over the rows of columns_result
RECURSIVE update_columns_rows(_, _, _)
update_columns_rows(c, rows, major) ==
  IF rows = <<>> THEN c
  ELSE update_columns_rows(update_columns_row(c, Head(rows), major), Tail(rows), major)

\* InternalData::update_tables on the generation g: the loop over
\* tables_result, then update_columns
InternalData_update_tables(g, tables_result, columns_result, major) ==
  LET g1 == update_tables_rows(g, tables_result)
      c == update_columns_rows([g |-> g1, keyspace_name |-> "", columnfamily_name |-> "",
                                table |-> 0],
                               columns_result, major)
  IN update_columns_end(c, major).g


----------------------------------------------------------------------------
(* Inputs of the model: the rows the server may send and the names the     *)
(* drop notifications may carry                                            *)

Keyspaces == {"ks1", "ks2"}

KeyspaceRows ==
  {[keyspace_name |-> "ks1", strategy_class |-> "SimpleStrategy"],
   [keyspace_name |-> "ks2", strategy_class |-> "SimpleStrategy"]}

TableNames == {"t1"}

TableRows ==
  {[keyspace_name |-> "ks1", columnfamily_name |-> "t1", comment |-> "c1",
    key_validator |-> [types |-> <<"int">>, is_composite |-> FALSE, collections |-> FALSE],
    comparator |-> [types |-> <<"text">>, is_composite |-> FALSE, collections |-> FALSE]]}

ColumnRows ==
  {[keyspace_name |-> "ks1", columnfamily_name |-> "t1", column_name |-> <<"a">>,
    type |-> "regular", validator |-> "text"],
   [keyspace_name |-> "ks1", columnfamily_name |-> "t1", column_name |-> <<"b">>,
    type |-> "partition_key", component_index |-> 0, validator |-> "int"]}

TypeInt == <<"i", "n", "t">>

UserTypeNames == {"u1"}

UserTypeRows ==
  {[keyspace_name |-> "ks1", type_name |-> "u1",
    field_names |-> << <<"x">> >>, field_types |-> <<TypeInt>>]}

FunctionRows ==
  {[keyspace_name |-> "ks1", function_name |-> <<"f">>, signature |-> <<TypeInt>>,
    body |-> b] : b \in {"b1", "b2"}}

AggregateRows ==
  {[keyspace_name |-> "ks1", aggregate_name |-> <<"g">>, signature |-> <<TypeInt>>,
    state_type |-> TypeInt, state_func |-> <<"f">>, final_func |-> <<"f">>]}

FunctionKeys == {full_function_name(r["function_name"], r["signature"]) : r \in FunctionRows}

AggregateKeys == {full_function_name(r["aggregate_name"], r["signature"]) : r \in AggregateRows}

\* the server versions set_cassandra_version is called with
CassandraVersions == {2}

----------------------------------------------------------------------------
(* The heaps and what a holder of a keyspace map handle sees *)

\* the table objects a keyspace map refers to
TablesOf(m) == UNION {Range(m[k].tables) : k \in DOMAIN m}

\* what the lookups through a keyspace give: the table map with every table
\* pointer followed
KeyspaceContent(ks, to) ==
  [ks EXCEPT !.tables = [t \in DOMAIN ks.tables |-> to[ks.tables[t]]]]

\* what the lookups through the handle h give: keyspaces, tables with their
\* columns and key sequences, user types, functions, aggregates, fields
ContentOf(km, to, h) == [k \in DOMAIN km[h] |-> KeyspaceContent(km[h][k], to)]

Content(h) == ContentOf(kmaps, tobjs, h)

SnapshotHandles(snaps) == {snaps[i].keyspaces : i \in 1..Len(snaps)}

\* the number of holders of the keyspace map h (Referenced::ref_count)
RefCount(h) ==
  (IF front = h THEN 1 ELSE 0) + (IF back = h THEN 1 ELSE 0)
  + Cardinality({i \in 1..Len(snapshots) : snapshots[i].keyspaces = h})

\* CopyOnWritePtr::detach: a holder about to write through a shared handle
\* gets a new map object
detach(h) == IF RefCount(h) > 1 THEN NewId(DOMAIN kmaps) ELSE h

\* The new values of the handles and heaps; a map without holder and a table
\* object without reference are destroyed.  table is the writer's local
\* TableMetadata::Ptr (0 when null).
Install(f, b, km, to, snaps, table) ==
  LET live == {f, b} \cup SnapshotHandles(snaps)
      km2 == Restrict(km, live)
      used == UNION {TablesOf(km2[h]) : h \in DOMAIN km2} \cup ({table} \ {0})
  IN /\ front' = f
     /\ back' = b
     /\ snapshots' = snaps
     /\ kmaps' = km2
     /\ tobjs' = Restrict(to, used)

\* is_front_buffer()
is_front_buffer == updating = "front"

\* variant: updating_ never leaves the front generation
UpdatingGeneration_front == "front"

\* the generation updating_ points to
UpdatingGeneration == IF is_front_buffer THEN "front" ELSE "back"

Handle(gen) == IF gen = "front" THEN front ELSE back

\* the keyspace map of *updating_
UpdatingMap == kmaps[Handle(UpdatingGeneration)]

\* A write of the writer through the keyspaces_ handle of generation gen:
\* the handle is detached when touched (a non-const access happened) and
\* the map and the table heap get their new values.
Write(gen, touched, m, to, table) ==
  LET h == Handle(gen)
      h2 == IF touched THEN detach(h) ELSE h
      km == [x \in (DOMAIN kmaps) \cup {h2} |-> IF x = h2 THEN m ELSE kmaps[x]]
  IN Install(IF gen = "front" THEN h2 ELSE front,
             IF gen = "front" THEN back ELSE h2,
             km, to, snapshots, table)

----------------------------------------------------------------------------
(* Initial state: Metadata() *)

\* The writer's call: the operation, the locals of update_columns
\* (keyspace_name, columnfamily_name, table, and nrows, the number of rows of
\* columns_result consumed), and two records of the call's start: version0,
\* the version before the call, and fresh, the table objects the call created.
NoCall ==
  [op |-> "none", keyspace_name |-> "", columnfamily_name |-> "", table |-> 0,
   nrows |-> 0, fresh |-> {}, version0 |-> 0, name |-> "", full_name |-> <<>>]

NoRebuild == [intact |-> FALSE, base |-> EmptyMap]

NoReturn == [op |-> "none", args |-> <<>>, done |-> TRUE, value |-> <<>>]

InitCatalog ==
  /\ version = 0
  /\ updating = "front"
  /\ front = 1
  /\ back = 2
  /\ kmaps = [h \in {1, 2} |-> EmptyMap]
  /\ tobjs = EmptyMap
  /\ cassandra_version = 0
  /\ mutex = "free"
  /\ pc = "idle"
  /\ call = NoCall
  /\ snapshots = <<>>
  /\ ncalls = 0
  /\ rebuild = NoRebuild
  /\ ret = NoReturn
  /\ reading = [r \in Readers |-> "idle"]

Init ==
  /\ InitCatalog
  /\ budget = [calls |-> MaxCalls, snapshots |-> MaxSnapshots]

InitReaders ==
  /\ InitCatalog
  /\ budget = [calls |-> MaxReaderCalls, snapshots |-> MaxReaderSnapshots]


----------------------------------------------------------------------------
(* The reader operation *)

\* variant: schema_snapshot() copies back_.keyspaces()
SnapshotSource_back == back

\* the handle schema_snapshot() copies: front_.keyspaces()
SnapshotSource == front

\* Metadata::schema_snapshot: the whole body runs under the mutex.  taken,
\* at_pc, at_updating and rebuild record the moment of the call: what the
\* lookups gave then, where the writer was, and the running rebuild.
schema_snapshot ==
  /\ mutex = "free"
  /\ Len(snapshots) < budget.snapshots
  /\ snapshots' = Append(snapshots,
                         [version |-> version, keyspaces |-> SnapshotSource,
                          taken |-> Content(SnapshotSource),
                          at_pc |-> pc, at_updating |-> updating, rebuild |-> rebuild])
  /\ UNCHANGED <<version, updating, front, back, kmaps, tobjs, mutex, pc, call,
                 cassandra_version, ncalls, rebuild, budget, ret, reading>>

----------------------------------------------------------------------------
(* The writer: update_* and drop_* *)

\* variant: the counter advances by 2
NextVersion_twice(v) == v + 2

\* schema_snapshot_version_++.  The counter is a uint32_t; a run of the model
\* increments it at most MaxCalls times from 0, so the wrap at 2^32 is out of
\* reach and the increment is the one of the integers.
NextVersion(v) == v + 1

\* The first statement of every update_* and drop_*: the version is
\* incremented before the mutex is taken.  A result set is not read before
\* the InternalData operation runs, so the model draws it there; the names a
\* drop_* is called with are kept in the call (keyspace_name, name).
BeginCallWith(op, keyspace_name, name) ==
  /\ pc = "idle"
  /\ ncalls < budget.calls
  /\ version' = NextVersion(version)
  /\ pc' = "bumped"
  /\ call' = [NoCall EXCEPT !.op = op, !.version0 = version,
                            !.keyspace_name = keyspace_name,
                            !.name = IF op \in {"drop_function", "drop_aggregate"}
                                     THEN "" ELSE name,
                            !.full_name = IF op \in {"drop_function", "drop_aggregate"}
                                          THEN name ELSE <<>>]
  /\ ncalls' = ncalls + 1
  /\ UNCHANGED <<updating, front, back, kmaps, tobjs, mutex, snapshots, cassandra_version,
                 rebuild, budget, ret, reading>>

\* an update_*: no names
BeginCall(op) == BeginCallWith(op, "", "")

\* The rest of a call whose InternalData operation is one step: under the
\* mutex when updating_ is the front generation, without it otherwise.
FinishCall(op, touched, m) ==
  /\ pc = "bumped"
  /\ call.op = op
  /\ is_front_buffer => mutex = "free"
  /\ Write(UpdatingGeneration, touched, m, tobjs, 0)
  /\ pc' = "idle"
  /\ call' = NoCall
  /\ UNCHANGED <<version, updating, mutex, cassandra_version, ncalls, rebuild, budget, ret, reading>>

Metadata_update_keyspaces == BeginCall("update_keyspaces")

Apply_update_keyspaces ==
  \E result \in SeqsUpTo(KeyspaceRows, MaxRows) :
    FinishCall("update_keyspaces", HasValidRow(result, {"keyspace_name"}),
               InternalData_update_keyspaces(UpdatingMap, result))

Metadata_update_user_types == BeginCall("update_user_types")

Apply_update_user_types ==
  \E result \in SeqsUpTo(UserTypeRows, MaxRows) :
    FinishCall("update_user_types", HasValidRow(result, {"keyspace_name", "type_name"}),
               InternalData_update_user_types(UpdatingMap, result))

Metadata_update_functions == BeginCall("update_functions")

Apply_update_functions ==
  \E result \in SeqsUpTo(FunctionRows, MaxRows) :
    FinishCall("update_functions", HasValidRow(result, {"keyspace_name", "function_name", "signature"}),
               InternalData_update_functions(UpdatingMap, result))

Metadata_update_aggregates == BeginCall("update_aggregates")

Apply_update_aggregates ==
  \E result \in SeqsUpTo(AggregateRows, MaxRows) :
    FinishCall("update_aggregates", HasValidRow(result, {"keyspace_name", "aggregate_name", "signature"}),
               InternalData_update_aggregates(UpdatingMap, result))

Metadata_drop_keyspace ==
  \E k \in Keyspaces : BeginCallWith("drop_keyspace", k, "")

Apply_drop_keyspace ==
  FinishCall("drop_keyspace", TRUE,
             InternalData_drop_keyspace(UpdatingMap, call.keyspace_name))

Metadata_drop_table ==
  \E k \in Keyspaces, t \in TableNames : BeginCallWith("drop_table", k, t)

Apply_drop_table ==
  FinishCall("drop_table", TRUE,
             InternalData_drop_table(UpdatingMap, call.keyspace_name, call.name))

Metadata_drop_user_type ==
  \E k \in Keyspaces, t \in UserTypeNames : BeginCallWith("drop_user_type", k, t)

Apply_drop_user_type ==
  FinishCall("drop_user_type", TRUE,
             InternalData_drop_user_type(UpdatingMap, call.keyspace_name, call.name))

Metadata_drop_function ==
  \E k \in Keyspaces, f \in FunctionKeys : BeginCallWith("drop_function", k, f)

Apply_drop_function ==
  FinishCall("drop_function", TRUE,
             InternalData_drop_function(UpdatingMap, call.keyspace_name, call.full_name))

Metadata_drop_aggregate ==
  \E k \in Keyspaces, a \in AggregateKeys : BeginCallWith("drop_aggregate", k, a)

Apply_drop_aggregate ==
  FinishCall("drop_aggregate", TRUE,
             InternalData_drop_aggregate(UpdatingMap, call.keyspace_name, call.full_name))


----------------------------------------------------------------------------
(* The writer: update_tables, one step per row of columns_result *)

Metadata_update_tables == BeginCall("update_tables")

\* the mutex is taken when updating_ is the front generation, then the loop
\* over tables_result runs
update_tables_table_rows ==
  /\ pc = "bumped"
  /\ call.op = "update_tables"
  /\ is_front_buffer => mutex = "free"
  /\ \E tables_result \in SeqsUpTo(TableRows, MaxRows) :
       LET g == update_tables_rows([m |-> UpdatingMap, to |-> tobjs, fresh |-> {}],
                                   tables_result)
       IN /\ Write(UpdatingGeneration,
                   HasValidRow(tables_result, {"keyspace_name", "columnfamily_name"}),
                   g.m, g.to, 0)
          /\ call' = [call EXCEPT !.fresh = g.fresh]
  /\ mutex' = IF is_front_buffer THEN "writer" ELSE mutex
  /\ pc' = "columns"
  /\ UNCHANGED <<version, updating, cassandra_version, ncalls, rebuild, budget, ret, reading>>

\* the locals of update_columns together with the generation they work on
ColumnsCursor ==
  [g |-> [m |-> UpdatingMap, to |-> tobjs, fresh |-> call.fresh],
   keyspace_name |-> call.keyspace_name,
   columnfamily_name |-> call.columnfamily_name,
   table |-> call.table]

\* one iteration of the loop of update_columns, on the next row of
\* columns_result
update_columns_next_row ==
  /\ pc = "columns"
  /\ call.nrows < MaxColumnRows
  /\ \E row \in ColumnRows :
     LET c == update_columns_row(ColumnsCursor, row, cassandra_version)
     IN /\ Write(UpdatingGeneration, c.keyspace_name # call.keyspace_name,
                 c.g.m, c.g.to, c.table)
        /\ call' = [call EXCEPT !.nrows = @ + 1,
                                !.keyspace_name = c.keyspace_name,
                                !.columnfamily_name = c.columnfamily_name,
                                !.table = c.table,
                                !.fresh = c.g.fresh]
  /\ UNCHANGED <<version, updating, mutex, pc, cassandra_version, ncalls, rebuild, budget, ret, reading>>

\* variant: update_tables returns without releasing the mutex
update_columns_finish_keep ==
  /\ pc = "columns"
  /\ LET c == update_columns_end(ColumnsCursor, cassandra_version)
     IN Write(UpdatingGeneration, FALSE, c.g.m, c.g.to, 0)
  /\ pc' = "idle"
  /\ call' = NoCall
  /\ UNCHANGED <<version, updating, mutex, cassandra_version, ncalls, rebuild, budget, ret,
                 reading>>

\* the end of update_columns and of update_tables, when columns_result has
\* no further row: keys of the last table, then the mutex is released
update_columns_finish ==
  /\ pc = "columns"
  /\ LET c == update_columns_end(ColumnsCursor, cassandra_version)
     IN Write(UpdatingGeneration, FALSE, c.g.m, c.g.to, 0)
  /\ mutex' = IF is_front_buffer THEN "free" ELSE mutex
  /\ pc' = "idle"
  /\ call' = NoCall
  /\ UNCHANGED <<version, updating, cassandra_version, ncalls, rebuild, budget, ret, reading>>

----------------------------------------------------------------------------
(* The writer: the generation protocol *)

\* InternalData::clear
InternalData_clear(m) == EmptyMap

\* variant: swap leaves both handles as they are
InternalData_swap_keep(this, other) == [this |-> this, other |-> other]

\* InternalData::swap(other): temp = other.keyspaces_;
\* keyspaces_ = other.keyspaces_; other.keyspaces_ = temp
InternalData_swap(this, other) ==
  LET temp == other
      this1 == other
      other1 == temp
  IN [this |-> this1, other |-> other1]

\* variant: the back generation is not cleared
clear_and_update_back_keep ==
  /\ pc = "idle"
  /\ ncalls < budget.calls
  /\ Write("back", FALSE, kmaps[back], tobjs, 0)
  /\ updating' = "back"
  /\ ncalls' = ncalls + 1
  /\ rebuild' = [intact |-> TRUE, base |-> Content(front)]
  /\ UNCHANGED <<version, mutex, pc, call, cassandra_version, budget, ret, reading>>

\* Metadata::clear_and_update_back
clear_and_update_back ==
  /\ pc = "idle"
  /\ ncalls < budget.calls
  /\ Write("back", TRUE, InternalData_clear(kmaps[back]), tobjs, 0)
  /\ updating' = "back"
  /\ ncalls' = ncalls + 1
  /\ rebuild' = [intact |-> TRUE, base |-> Content(front)]
  /\ UNCHANGED <<version, mutex, pc, call, cassandra_version, budget, ret, reading>>

\* Metadata::swap_to_back_and_update_front, the block under the mutex
swap_to_back_and_update_front ==
  /\ pc = "idle"
  /\ ncalls < budget.calls
  /\ mutex = "free"
  /\ version' = NextVersion(version)
  /\ LET sw == InternalData_swap(front, back)
     IN Install(sw.this, sw.other, kmaps, tobjs, snapshots, 0)
  /\ pc' = "swap_clear"
  /\ call' = [NoCall EXCEPT !.op = "swap_to_back_and_update_front", !.version0 = version]
  /\ ncalls' = ncalls + 1
  /\ rebuild' = NoRebuild
  /\ UNCHANGED <<updating, mutex, cassandra_version, budget, ret, reading>>

\* variant: updating_ is left on the back generation
swap_clear_back_stay ==
  /\ pc = "swap_clear"
  /\ Write("back", TRUE, InternalData_clear(kmaps[back]), tobjs, 0)
  /\ pc' = "idle"
  /\ call' = NoCall
  /\ UNCHANGED <<version, updating, mutex, cassandra_version, ncalls, rebuild, budget, ret,
                 reading>>

\* Metadata::swap_to_back_and_update_front, after the mutex is released:
\* back_.clear(); updating_ = &front_
swap_clear_back ==
  /\ pc = "swap_clear"
  /\ Write("back", TRUE, InternalData_clear(kmaps[back]), tobjs, 0)
  /\ updating' = "front"
  /\ pc' = "idle"
  /\ call' = NoCall
  /\ UNCHANGED <<version, mutex, cassandra_version, ncalls, rebuild, budget, ret, reading>>

\* variant: front_.clear() empties the map in place, shared or not
clear_shared ==
  /\ pc = "idle"
  /\ ncalls < budget.calls
  /\ mutex = "free"
  /\ version' = 0
  /\ Write("front", FALSE, InternalData_clear(kmaps[front]), tobjs, 0)
  /\ pc' = "clear_back"
  /\ call' = [NoCall EXCEPT !.op = "clear", !.version0 = version]
  /\ ncalls' = ncalls + 1
  /\ rebuild' = NoRebuild
  /\ UNCHANGED <<updating, mutex, cassandra_version, budget, ret, reading>>

\* Metadata::clear, the block under the mutex
clear ==
  /\ pc = "idle"
  /\ ncalls < budget.calls
  /\ mutex = "free"
  /\ version' = 0
  /\ Write("front", TRUE, InternalData_clear(kmaps[front]), tobjs, 0)
  /\ pc' = "clear_back"
  /\ call' = [NoCall EXCEPT !.op = "clear", !.version0 = version]
  /\ ncalls' = ncalls + 1
  /\ rebuild' = NoRebuild
  /\ UNCHANGED <<updating, mutex, cassandra_version, budget, ret, reading>>

\* Metadata::clear, after the mutex is released: back_.clear()
clear_back ==
  /\ pc = "clear_back"
  /\ Write("back", TRUE, InternalData_clear(kmaps[back]), tobjs, 0)
  /\ pc' = "idle"
  /\ call' = NoCall
  /\ UNCHANGED <<version, updating, mutex, cassandra_version, ncalls, rebuild, budget, ret, reading>>

\* Metadata::set_cassandra_version.  The control connection learns the
\* server version when it connects, before it issues a schema query, so the
\* model sets it before the first call of the writer.
set_cassandra_version ==
  /\ pc = "idle"
  /\ ncalls = 0
  /\ \E v \in CassandraVersions :
       /\ cassandra_version # v
       /\ cassandra_version' = v
  /\ UNCHANGED <<version, updating, front, back, kmaps, tobjs, mutex, pc, call,
                 snapshots, ncalls, rebuild, budget, ret, reading>>

----------------------------------------------------------------------------

Next ==
  \/ schema_snapshot
  \/ Metadata_update_keyspaces
  \/ Apply_update_keyspaces
  \/ Metadata_update_tables
  \/ update_tables_table_rows
  \/ update_columns_next_row
  \/ update_columns_finish
  \/ Metadata_update_user_types
  \/ Apply_update_user_types
  \/ Metadata_update_functions
  \/ Apply_update_functions
  \/ Metadata_update_aggregates
  \/ Apply_update_aggregates
  \/ Metadata_drop_keyspace
  \/ Apply_drop_keyspace
  \/ Metadata_drop_table
  \/ Apply_drop_table
  \/ Metadata_drop_user_type
  \/ Apply_drop_user_type
  \/ Metadata_drop_function
  \/ Apply_drop_function
  \/ Metadata_drop_aggregate
  \/ Apply_drop_aggregate
  \/ clear_and_update_back
  \/ swap_to_back_and_update_front
  \/ swap_clear_back
  \/ clear
  \/ clear_back
  \/ set_cassandra_version

Spec == Init /\ [][Next]_vars

\* the same catalog with two readers
SpecReaders == InitReaders /\ [][Next]_vars


\* the same catalog with the steps of schema_snapshot() told apart
InitLive ==
  /\ InitCatalog
  /\ budget = [calls |-> MaxLiveCalls, snapshots |-> MaxLiveSnapshots]

\* a reader thread calls schema_snapshot() and comes to ScopedMutex l(&mutex_)
schema_snapshot_call(r) ==
  /\ reading[r] = "idle"
  /\ Len(snapshots) + Cardinality({q \in Readers : reading[q] # "idle"}) < budget.snapshots
  /\ reading' = [reading EXCEPT ![r] = "waiting"]
  /\ UNCHANGED <<version, updating, front, back, kmaps, tobjs, mutex, pc, call,
                 snapshots, cassandra_version, ncalls, rebuild, budget, ret>>

\* uv_mutex_lock returns in the reader
schema_snapshot_lock(r) ==
  /\ reading[r] = "waiting"
  /\ mutex = "free"
  /\ mutex' = "reader"
  /\ reading' = [reading EXCEPT ![r] = "locked"]
  /\ UNCHANGED <<version, updating, front, back, kmaps, tobjs, pc, call,
                 snapshots, cassandra_version, ncalls, rebuild, budget, ret>>

\* the SchemaSnapshot is constructed and returned; the destructor of the
\* ScopedMutex releases the mutex
schema_snapshot_return(r) ==
  /\ reading[r] = "locked"
  /\ snapshots' = Append(snapshots,
                         [version |-> version, keyspaces |-> SnapshotSource,
                          taken |-> Content(SnapshotSource),
                          at_pc |-> pc, at_updating |-> updating, rebuild |-> rebuild])
  /\ mutex' = "free"
  /\ reading' = [reading EXCEPT ![r] = "idle"]
  /\ UNCHANGED <<version, updating, front, back, kmaps, tobjs, pc, call,
                 cassandra_version, ncalls, rebuild, budget, ret>>

\* the steps of a reader thread
ReaderStep(r) ==
  \/ schema_snapshot_lock(r)
  \/ schema_snapshot_return(r)

\* the steps of the writer thread inside a call
WriterStep ==
  \/ Apply_update_keyspaces
  \/ update_tables_table_rows
  \/ update_columns_next_row
  \/ update_columns_finish
  \/ Apply_update_user_types
  \/ Apply_update_functions
  \/ Apply_update_aggregates
  \/ Apply_drop_keyspace
  \/ Apply_drop_table
  \/ Apply_drop_user_type
  \/ Apply_drop_function
  \/ Apply_drop_aggregate
  \/ swap_clear_back
  \/ clear_back

\* the calls the writer thread starts
WriterCall ==
  \/ Metadata_update_keyspaces
  \/ Metadata_update_tables
  \/ Metadata_update_user_types
  \/ Metadata_update_functions
  \/ Metadata_update_aggregates
  \/ Metadata_drop_keyspace
  \/ Metadata_drop_table
  \/ Metadata_drop_user_type
  \/ Metadata_drop_function
  \/ Metadata_drop_aggregate
  \/ clear_and_update_back
  \/ swap_to_back_and_update_front
  \/ clear
  \/ set_cassandra_version

NextLive ==
  \/ \E r \in Readers : schema_snapshot_call(r)
  \/ \E r \in Readers : schema_snapshot_lock(r)
  \/ \E r \in Readers : schema_snapshot_return(r)
  \/ WriterCall
  \/ WriterStep

\* Every thread that can take a step is scheduled, and a thread that waits
\* for the mutex gets it when the mutex is free again and again.
SpecLive ==
  /\ InitLive
  /\ [][NextLive]_vars
  /\ SF_vars(WriterStep)
  /\ \A r \in Readers : SF_vars(ReaderStep(r))

----------------------------------------------------------------------------
(* The const and static functions, and the InternalData operations as      *)
(* functions of a result set, called on their own: ret records the call   *)

CatalogUnchanged ==
  UNCHANGED <<version, updating, front, back, kmaps, tobjs, mutex, pc, call,
              snapshots, cassandra_version, ncalls, rebuild, budget, reading>>

\* a call that has not run yet: the function and its arguments
PendingCall(op, args) == [op |-> op, args |-> args, done |-> FALSE, value |-> <<>>]

\* the call returns value
Return(op, value) ==
  /\ ret.op = op
  /\ ~ret.done
  /\ ret' = [ret EXCEPT !.done = TRUE, !.value = value]
  /\ CatalogUnchanged

TypeText == <<"t", "e", "x", "t">>

\* rows of system.schema_functions with overloads of f
OverloadFunctionRows ==
  {[keyspace_name |-> "ks1", function_name |-> <<"f">>, signature |-> sig, body |-> b] :
     sig \in {<<TypeInt>>, <<TypeInt, TypeInt>>}, b \in {"b1", "b2"}}
  \cup {[keyspace_name |-> "ks1", function_name |-> <<"g">>, signature |-> <<TypeInt>>,
          body |-> "b1"]}

\* rows of system.schema_aggregates with overloads of a
OverloadAggregateRows ==
  {[keyspace_name |-> "ks1", aggregate_name |-> <<"a">>, signature |-> sig, initcond |-> c] :
     sig \in {<<TypeInt>>, <<TypeInt, TypeInt>>}, c \in {"i1", "i2"}}
  \cup {[keyspace_name |-> "ks1", aggregate_name |-> <<"h">>, signature |-> <<TypeInt>>,
          initcond |-> "i1"]}

\* InternalData::update_functions on an empty generation
Calls_update_functions ==
  {PendingCall("update_functions", [rows |-> rows]) :
     rows \in SeqsUpTo(OverloadFunctionRows, MaxPureRows)}

Call_update_functions ==
  Return("update_functions", InternalData_update_functions(EmptyMap, ret.args.rows))

\* InternalData::update_aggregates on an empty generation
Calls_update_aggregates ==
  {PendingCall("update_aggregates", [rows |-> rows]) :
     rows \in SeqsUpTo(OverloadAggregateRows, MaxPureRows)}

Call_update_aggregates ==
  Return("update_aggregates", InternalData_update_aggregates(EmptyMap, ret.args.rows))

\* the argument strings of a signature: empty, a type name, white space
\* only, a type name inside white space
ArgumentStrings == {<<>>, TypeInt, <<" ">>, <<" ">> \o TypeText \o <<" ">>}

\* Metadata::full_function_name
Calls_full_function_name ==
  {PendingCall("full_function_name", [name |-> <<"f">>, signature |-> signature]) :
     signature \in SeqsUpTo(ArgumentStrings, MaxArguments)}

Call_full_function_name ==
  Return("full_function_name", full_function_name(ret.args.name, ret.args.signature))

\* rows of system.schema_columns for one table of a server that reports key
\* columns
KeyColumnRows ==
  {[keyspace_name |-> "ks1", columnfamily_name |-> "t1", column_name |-> <<n[1]>>,
    type |-> n[2], component_index |-> n[3], validator |-> "int"] :
     n \in {<<"i", "partition_key", 0>>, <<"j", "partition_key", 1>>,
            <<"a", "clustering_key", 0>>, <<"b", "clustering_key", 1>>,
            <<"s", "static", 0>>, <<"n", "partition_key", -1>>}}
  \cup {[keyspace_name |-> "ks1", columnfamily_name |-> "t1", column_name |-> <<"x">>,
          validator |-> "text"]}

\* the body of the loop of update_columns for the rows of one table:
\* add_column(new ColumnMetadata(column_name, version, buffer, row))
RECURSIVE LoadColumns(_, _)
LoadColumns(t, rows) ==
  IF rows = <<>> THEN t
  ELSE LoadColumns(add_column(t, ColumnMetadata_row(Head(rows)["column_name"], Head(rows))),
                   Tail(rows))

\* the parse results of key_validator strings: up to MaxComponents
\* component types
KeyValidators ==
  {[types |-> types, is_composite |-> Len(types) > 1, collections |-> FALSE] :
     types \in SeqsUpTo({"int", "text"}, MaxComponents)}

KeyAliasLists == SeqsUpTo({<<"k", "1">>, <<"k", "2">>}, MaxComponents)

\* rows of system.schema_columnfamilies of a server that reports no key
\* columns: with and without key_validator and key_aliases
LegacyTableRows ==
  {[keyspace_name |-> "ks1", columnfamily_name |-> "t1"]}
  \cup {[keyspace_name |-> "ks1", columnfamily_name |-> "t1", key_validator |-> v] :
          v \in KeyValidators}
  \cup {[keyspace_name |-> "ks1", columnfamily_name |-> "t1", key_validator |-> v,
          key_aliases |-> a] : v \in KeyValidators, a \in KeyAliasLists}

\* the parse results of comparator strings: one type when the comparator is
\* not composite, up to MaxComponents component types when it is, with or
\* without embedded collection types
Comparators ==
  {[types |-> types, is_composite |-> FALSE, collections |-> FALSE] :
     types \in {<<"int">>, <<"text">>}}
  \cup {[types |-> types, is_composite |-> TRUE, collections |-> collections] :
          types \in SeqsUpTo({"int", "text"}, MaxComponents) \ {<<>>},
          collections \in BOOLEAN}

ColumnAliasLists == SeqsUpTo({<<"c", "1">>, <<"c", "2">>}, MaxComponents)

\* rows of system.schema_columnfamilies of a server that reports no key
\* columns, with comparator and column_aliases
LegacyComparatorRows ==
  {[keyspace_name |-> "ks1", columnfamily_name |-> "t1",
    key_validator |-> [types |-> <<"int">>, is_composite |-> FALSE, collections |-> FALSE],
    comparator |-> c, column_aliases |-> a] :
     c \in Comparators, a \in ColumnAliasLists}

\* rows of system.schema_columns of such a server
LegacyColumnRows ==
  {[keyspace_name |-> "ks1", columnfamily_name |-> "t1", column_name |-> <<n>>,
    validator |-> "text"] : n \in {"x", "y"}}

\* TableMetadata::build_keys_and_sort on a table whose columns were just
\* loaded
Calls_build_keys_and_sort ==
  {PendingCall("build_keys_and_sort",
               [table |-> LoadColumns(TableMetadata_name("t1"), rows), major |-> 2]) :
     rows \in SeqsUpTo(KeyColumnRows, MaxColumns)}
  \cup {PendingCall("build_keys_and_sort",
                    [table |-> LoadColumns(TableMetadata_row("t1", row), rows),
                     major |-> 1]) :
          row \in LegacyTableRows, rows \in SeqsUpTo({r \in KeyColumnRows : "type" \notin DOMAIN r}, 1)}
  \cup {PendingCall("build_keys_and_sort",
                    [table |-> LoadColumns(TableMetadata_row("t1", row), rows),
                     major |-> 1]) :
          row \in LegacyComparatorRows, rows \in SeqsUpTo(LegacyColumnRows, MaxLegacyColumns)}

Call_build_keys_and_sort ==
  Return("build_keys_and_sort", build_keys_and_sort(ret.args.table, ret.args.major))

\* ss.seekp(pos); ss << text; ss.str() -- the text replaces the characters
\* of the buffer from pos on
ostringstream_seekp_put(buffer, pos, text) ==
  SubSeq(buffer, 1, pos) \o text \o SubSeq(buffer, pos + Len(text) + 1, Len(buffer))

\* the loop of TableMetadata::key_aliases over the components of
\* key_validator: ss is the buffer of the one stream the loop writes to
RECURSIVE SynthesizedKeyAliases(_, _, _, _)
SynthesizedKeyAliases(output, ss, count, i) ==
  IF i >= count THEN output
  ELSE LET ss1 == IF i > 0 THEN ostringstream_seekp_put(ss, 3, Decimal(i + 1)) ELSE ss
       IN SynthesizedKeyAliases(Append(output, ss1), ss1, count, i + 1)

\* TableMetadata::key_aliases(output)
key_aliases(t, output) ==
  LET output1 == output \o list_field(t, "key_aliases") IN
  IF output1 = <<>>
  THEN SynthesizedKeyAliases(output1, <<"k", "e", "y">>,
                             Len(parse_with_composite(t, "key_validator").types), 0)
  ELSE output1

\* SchemaSnapshot::get_table_key_columns(ks_name, table_name, output) on the
\* keyspaces a snapshot holds; the value is the output vector afterwards
get_table_key_columns(keyspaces, ks_name, table_name, output) ==
  IF ks_name \in DOMAIN keyspaces
  THEN IF table_name \in DOMAIN keyspaces[ks_name].tables
       THEN key_aliases(keyspaces[ks_name].tables[table_name], output)
       ELSE output
  ELSE output

\* what a snapshot may hold: nothing, or the keyspace ks1 with the table
\* t1, as constructed from its row or after the key derivation of a legacy
\* server
SnapshotContents ==
  {EmptyMap}
  \cup {[k \in {"ks1"} |->
           KeyspaceContent(add_table(KeyspaceMetadata("ks1"), "t1", 1),
                           [o \in {1} |-> TableMetadata_row("t1", row)])] :
          row \in LegacyTableRows}
  \cup {[k \in {"ks1"} |->
           KeyspaceContent(add_table(KeyspaceMetadata("ks1"), "t1", 1),
                           [o \in {1} |->
                              build_keys_and_sort(TableMetadata_row("t1", row), 1)])] :
          row \in LegacyTableRows}

\* the vector the caller passes: empty, or with an element already
OutputVectors == {<<>>, << <<"o">> >>}

Calls_get_table_key_columns ==
  {PendingCall("get_table_key_columns",
               [keyspaces |-> c, ks_name |-> k, table_name |-> t, output |-> o]) :
     c \in SnapshotContents, k \in Keyspaces, t \in {"t1", "t2"}, o \in OutputVectors}

Call_get_table_key_columns ==
  Return("get_table_key_columns",
         get_table_key_columns(ret.args.keyspaces, ret.args.ks_name,
                               ret.args.table_name, ret.args.output))

\* rows of system.schema_functions the aggregates below may refer to
ReferencedFunctionRows ==
  {[keyspace_name |-> "ks1", function_name |-> n[1], signature |-> n[2], body |-> "b1"] :
     n \in {<< <<"f">>, <<TypeInt, TypeInt>> >>, << <<"g">>, <<TypeInt>> >>,
            << <<"f">>, <<TypeInt>> >>}}
  \cup {[keyspace_name |-> "ks2", function_name |-> <<"g">>, signature |-> <<TypeInt>>,
          body |-> "b2"]}

\* rows of system.schema_aggregates with state_func f and final_func g, with
\* one of them, and with neither
ReferringAggregateRows ==
  {[keyspace_name |-> "ks1", aggregate_name |-> <<"a">>, signature |-> <<TypeInt>>,
    state_type |-> TypeInt, state_func |-> <<"f">>, final_func |-> <<"g">>],
   [keyspace_name |-> "ks1", aggregate_name |-> <<"a">>, signature |-> <<TypeInt>>,
    state_type |-> TypeInt],
   [keyspace_name |-> "ks1", aggregate_name |-> <<"h">>, signature |-> <<TypeInt>>,
    state_type |-> TypeInt, state_func |-> <<"f">>],
   [keyspace_name |-> "ks1", aggregate_name |-> <<"h">>, signature |-> <<TypeInt, TypeInt>>,
    state_type |-> TypeInt, final_func |-> <<"g">>]}

\* InternalData::update_functions, then InternalData::update_aggregates on
\* the generation it leaves
Calls_update_aggregates_referring ==
  {PendingCall("update_aggregates_referring", [function_rows |-> function_rows, rows |-> rows]) :
     function_rows \in SeqsUpTo(ReferencedFunctionRows, MaxReferencedFunctions),
     rows \in SeqsUpTo(ReferringAggregateRows, MaxPureRows)}

Call_update_aggregates_referring ==
  Return("update_aggregates_referring",
         InternalData_update_aggregates(
           InternalData_update_functions(EmptyMap, ret.args.function_rows),
           ret.args.rows))

\* rows of system.schema_columnfamilies and system.schema_columns for
\* tables of the same name in two keyspaces and two tables in one keyspace
GroupTableRows ==
  {[keyspace_name |-> n[1], columnfamily_name |-> n[2],
    key_validator |-> [types |-> <<"int">>, is_composite |-> FALSE, collections |-> FALSE]] :
     n \in {<<"ks1", "t1">>, <<"ks2", "t1">>, <<"ks1", "t2">>}}

GroupColumnRows ==
  {[keyspace_name |-> n[1], columnfamily_name |-> n[2], column_name |-> <<n[3]>>,
    validator |-> "text"] :
     n \in {<<"ks1", "t1", "a">>, <<"ks2", "t1", "b">>, <<"ks1", "t2", "c">>}}
  \cup {[keyspace_name |-> "ks1", columnfamily_name |-> "t1", column_name |-> <<"p">>,
          type |-> "partition_key", component_index |-> 0, validator |-> "int"],
        [keyspace_name |-> "ks1", columnfamily_name |-> "t1", column_name |-> <<"a">>,
          validator |-> "int"]}

\* InternalData::update_tables on an empty generation
Calls_update_tables ==
  {PendingCall("update_tables",
               [tables_result |-> tables, columns_result |-> columns, major |-> major]) :
     tables \in SeqsUpTo(GroupTableRows, MaxPureTableRows),
     columns \in SeqsUpTo(GroupColumnRows, MaxPureRows),
     major \in {1, 2}}

Call_update_tables ==
  Return("update_tables",
         LET g == InternalData_update_tables(
                    [m |-> EmptyMap, to |-> EmptyMap, fresh |-> {}],
                    ret.args.tables_result, ret.args.columns_result, ret.args.major)
         IN [k \in DOMAIN g.m |-> KeyspaceContent(g.m[k], g.to)])

\* a pointer of the C API: NULL, or the address of one element
NULL == <<>>

PointerTo(element) == <<element>>

\* cass_table_meta_column(table_meta, index)
cass_table_meta_column(table_meta, index) ==
  IF index >= Len(table_meta.columns) THEN NULL
  ELSE PointerTo(table_meta.columns[index + 1])

\* cass_table_meta_partition_key(table_meta, index)
cass_table_meta_partition_key(table_meta, index) ==
  IF index >= Len(table_meta.partition_key) THEN NULL
  ELSE PointerTo(table_meta.partition_key[index + 1])

\* cass_table_meta_clustering_key(table_meta, index)
cass_table_meta_clustering_key(table_meta, index) ==
  IF index >= Len(table_meta.clustering_key) THEN NULL
  ELSE PointerTo(table_meta.clustering_key[index + 1])

\* variant: the outputs are cleared before the index is tested
cass_function_meta_argument_clear(function_meta, index, out) ==
  IF index >= Len(function_meta.args)
  THEN [rc |-> "CASS_ERROR_LIB_INDEX_OUT_OF_BOUNDS", name |-> NULL, name_length |-> 0,
        type |-> NULL]
  ELSE [rc |-> "CASS_OK",
        name |-> PointerTo(function_meta.args[index + 1].name),
        name_length |-> Len(function_meta.args[index + 1].name),
        type |-> PointerTo(function_meta.args[index + 1].type)]

\* cass_function_meta_argument(function_meta, index, name, name_length, type):
\* out holds what *name, *name_length and *type held before the call, the
\* value what they hold after it, with the CassError returned
cass_function_meta_argument(function_meta, index, out) ==
  IF index >= Len(function_meta.args)
  THEN [rc |-> "CASS_ERROR_LIB_INDEX_OUT_OF_BOUNDS", name |-> out.name,
        name_length |-> out.name_length, type |-> out.type]
  ELSE [rc |-> "CASS_OK",
        name |-> PointerTo(function_meta.args[index + 1].name),
        name_length |-> Len(function_meta.args[index + 1].name),
        type |-> PointerTo(function_meta.args[index + 1].type)]

\* cass_aggregate_meta_argument_type(aggregate_meta, index)
cass_aggregate_meta_argument_type(aggregate_meta, index) ==
  IF index >= Len(aggregate_meta.arg_types) THEN NULL
  ELSE PointerTo(aggregate_meta.arg_types[index + 1])

\* what the caller's output variables hold before cass_function_meta_argument
CallerOutputs == [name |-> PointerTo(<<"o", "l", "d">>), name_length |-> 3,
                  type |-> PointerTo(TypeText)]

\* a positional accessor of the C API applied to meta and index
Accessor(fn, meta, index) ==
  CASE fn = "cass_table_meta_column" -> cass_table_meta_column(meta, index)
    [] fn = "cass_table_meta_partition_key" -> cass_table_meta_partition_key(meta, index)
    [] fn = "cass_table_meta_clustering_key" -> cass_table_meta_clustering_key(meta, index)
    [] fn = "cass_function_meta_argument" ->
         cass_function_meta_argument(meta, index, CallerOutputs)
    [] fn = "cass_aggregate_meta_argument_type" ->
         cass_aggregate_meta_argument_type(meta, index)

\* tables with up to MaxAccessorColumns columns, functions and aggregates
\* with up to MaxArguments arguments, and every index up to one past the
\* largest size
Calls_accessor ==
  {PendingCall("accessor",
               [fn |-> fn, index |-> index,
                meta |-> build_keys_and_sort(LoadColumns(TableMetadata_name("t1"), rows), 2)]) :
     fn \in {"cass_table_meta_column", "cass_table_meta_partition_key",
             "cass_table_meta_clustering_key"},
     index \in 0..(MaxAccessorColumns + 1),
     rows \in SeqsUpTo(KeyColumnRows, MaxAccessorColumns)}
  \cup {PendingCall("accessor",
                    [fn |-> "cass_function_meta_argument", index |-> index,
                     meta |-> FunctionMetadata(<<"f">>, types,
                                [keyspace_name |-> "ks1", function_name |-> <<"f">>,
                                 signature |-> types, argument_names |-> names,
                                 argument_types |-> types])]) :
          index \in 0..(MaxArguments + 1),
          names \in SeqsUpTo({<<"a">>, <<"b", "c">>}, MaxArguments),
          types \in SeqsUpTo({TypeInt}, MaxArguments)}
  \cup {PendingCall("accessor",
                    [fn |-> "cass_aggregate_meta_argument_type", index |-> index,
                     meta |-> AggregateMetadata(<<"g">>, types, EmptyMap,
                                [keyspace_name |-> "ks1", aggregate_name |-> <<"g">>,
                                 signature |-> types, argument_types |-> types])]) :
          index \in 0..(MaxArguments + 1),
          types \in SeqsUpTo({TypeInt, TypeText}, MaxArguments)}

Call_accessor ==
  Return("accessor", Accessor(ret.args.fn, ret.args.meta, ret.args.index))

\* KeyspaceMetadata::get_function
get_function(ks, full_name) ==
  IF full_name \in DOMAIN ks.functions THEN PointerTo(ks.functions[full_name]) ELSE NULL

\* KeyspaceMetadata::get_aggregate
get_aggregate(ks, full_name) ==
  IF full_name \in DOMAIN ks.aggregates THEN PointerTo(ks.aggregates[full_name]) ELSE NULL

\* cass_keyspace_meta_function_by_name(keyspace_meta, name, arguments)
cass_keyspace_meta_function_by_name(keyspace_meta, name, arguments) ==
  get_function(keyspace_meta, append_arguments(name, arguments))

\* cass_keyspace_meta_aggregate_by_name(keyspace_meta, name, arguments)
cass_keyspace_meta_aggregate_by_name(keyspace_meta, name, arguments) ==
  get_aggregate(keyspace_meta, append_arguments(name, arguments))

\* the argument string a caller writes for a list of argument types: the
\* types separated by commas
RECURSIVE CommaSeparated(_)
CommaSeparated(signature) ==
  IF signature = <<>> THEN <<>>
  ELSE IF Len(signature) = 1 THEN Head(signature)
  ELSE Head(signature) \o <<",">> \o CommaSeparated(Tail(signature))

\* a keyspace with one function or one aggregate of signature signature,
\* looked up by its simple name and its arguments written as a string
Calls_by_name ==
  {PendingCall("cass_keyspace_meta_function_by_name",
               [keyspace_meta |->
                  add_function(KeyspaceMetadata("ks1"),
                    FunctionMetadata(<<"f">>, signature,
                      [keyspace_name |-> "ks1", function_name |-> <<"f">>,
                       signature |-> signature])),
                name |-> <<"f">>, signature |-> signature,
                arguments |-> CommaSeparated(signature)]) :
     signature \in SeqsUpTo(ArgumentStrings, MaxArguments)}
  \cup {PendingCall("cass_keyspace_meta_aggregate_by_name",
               [keyspace_meta |->
                  add_aggregate(KeyspaceMetadata("ks1"),
                    AggregateMetadata(<<"a">>, signature, EmptyMap,
                      [keyspace_name |-> "ks1", aggregate_name |-> <<"a">>,
                       signature |-> signature])),
                name |-> <<"a">>, signature |-> signature,
                arguments |-> CommaSeparated(signature)]) :
     signature \in SeqsUpTo(ArgumentStrings, MaxArguments)}

Call_function_by_name ==
  Return("cass_keyspace_meta_function_by_name",
         cass_keyspace_meta_function_by_name(ret.args.keyspace_meta, ret.args.name,
                                             ret.args.arguments))

Call_aggregate_by_name ==
  Return("cass_keyspace_meta_aggregate_by_name",
         cass_keyspace_meta_aggregate_by_name(ret.args.keyspace_meta, ret.args.name,
                                              ret.args.arguments))

\* rows that lack a name column the loops require, next to the rows of the
\* model that have them
RowsOfKeyspaces ==
  KeyspaceRows \cup {[strategy_class |-> "NetworkTopologyStrategy"]}

RowsOfTables ==
  TableRows
  \cup {[keyspace_name |-> "ks2", comment |-> "c2"],
        [columnfamily_name |-> "t1", comment |-> "c3"]}

RowsOfColumns ==
  ColumnRows
  \cup {[keyspace_name |-> "ks1", columnfamily_name |-> "t1", validator |-> "int"],
        [keyspace_name |-> "ks2", column_name |-> <<"c">>, validator |-> "int"],
        [columnfamily_name |-> "t2", column_name |-> <<"c">>, validator |-> "int"]}

RowsOfUserTypes ==
  UserTypeRows
  \cup {[keyspace_name |-> "ks2", field_names |-> << <<"x">> >>, field_types |-> <<TypeInt>>],
        [type_name |-> "u1", field_names |-> << <<"y">> >>, field_types |-> <<TypeInt>>]}

RowsOfFunctions ==
  FunctionRows
  \cup {[keyspace_name |-> "ks1", function_name |-> <<"f">>, signature |-> <<TypeInt>>,
         body |-> "b2"],
        [keyspace_name |-> "ks2", function_name |-> <<"f">>, body |-> "b3"],
        [keyspace_name |-> "ks2", signature |-> <<TypeInt>>, body |-> "b3"],
        [function_name |-> <<"f">>, signature |-> <<TypeInt>>, body |-> "b3"]}

RowsOfAggregates ==
  AggregateRows
  \cup {[keyspace_name |-> "ks2", aggregate_name |-> <<"g">>, state_type |-> TypeInt],
        [keyspace_name |-> "ks2", signature |-> <<TypeInt>>, state_type |-> TypeInt],
        [aggregate_name |-> <<"g">>, signature |-> <<TypeInt>>, state_type |-> TypeInt]}

\* an InternalData::update_* operation on an empty generation, as a function
\* of its result sets; the value is what the lookups give afterwards
Ingest(op, rows, columns_result) ==
  CASE op = "update_keyspaces" -> InternalData_update_keyspaces(EmptyMap, rows)
    [] op = "update_user_types" -> InternalData_update_user_types(EmptyMap, rows)
    [] op = "update_functions" -> InternalData_update_functions(EmptyMap, rows)
    [] op = "update_aggregates" -> InternalData_update_aggregates(EmptyMap, rows)
    [] op = "update_tables" ->
         LET g == InternalData_update_tables([m |-> EmptyMap, to |-> EmptyMap, fresh |-> {}],
                                             rows, columns_result, 1)
         IN [k \in DOMAIN g.m |-> KeyspaceContent(g.m[k], g.to)]

Calls_ingest ==
  {PendingCall("ingest", [op |-> "update_keyspaces", rows |-> rows, columns_result |-> <<>>]) :
     rows \in SeqsUpTo(RowsOfKeyspaces, MaxPureRows)}
  \cup {PendingCall("ingest", [op |-> "update_user_types", rows |-> rows, columns_result |-> <<>>]) :
          rows \in SeqsUpTo(RowsOfUserTypes, MaxPureRows)}
  \cup {PendingCall("ingest", [op |-> "update_functions", rows |-> rows, columns_result |-> <<>>]) :
          rows \in SeqsUpTo(RowsOfFunctions, MaxPureRows)}
  \cup {PendingCall("ingest", [op |-> "update_aggregates", rows |-> rows, columns_result |-> <<>>]) :
          rows \in SeqsUpTo(RowsOfAggregates, MaxPureRows)}
  \cup {PendingCall("ingest", [op |-> "update_tables", rows |-> rows, columns_result |-> columns]) :
          rows \in SeqsUpTo(RowsOfTables, MaxPureTableRows),
          columns \in SeqsUpTo(RowsOfColumns, MaxPureRows)}

Call_ingest ==
  Return("ingest", Ingest(ret.args.op, ret.args.rows, ret.args.columns_result))

\* rows of system.schema_usertypes: well-formed ones, and ones whose
\* field_names and field_types differ in length, hold a null element or hold
\* a type string that does not parse
FieldListRows ==
  {[keyspace_name |-> "ks1", type_name |-> n[1], field_names |-> n[2], field_types |-> n[3]] :
     n \in {<<"u1", << <<"x">> >>, <<TypeInt>> >>,
            <<"u1", << <<"x">>, <<"y">> >>, <<TypeInt, TypeText>> >>,
            <<"u1", << <<"x">>, <<"y">> >>, <<TypeText>> >>,
            <<"u2", << <<"x">> >>, <<TypeInt, TypeText>> >>,
            <<"u2", << <<"x">>, NullElement >>, <<TypeInt, TypeText>> >>,
            <<"u2", << <<"x">>, <<"y">> >>, <<TypeInt, UnparsableType>> >>,
            <<"u2", << <<"y">> >>, <<TypeText>> >>}}

\* InternalData::update_user_types on an empty generation
Calls_update_user_types ==
  {PendingCall("update_user_types", [rows |-> rows]) :
     rows \in SeqsUpTo(FieldListRows, MaxPureTableRows)}

Call_update_user_types ==
  Return("update_user_types", InternalData_update_user_types(EmptyMap, ret.args.rows))

\* the texts of a JSON column: arrays, objects, a single value, and texts
\* that do not parse
JsonTexts ==
  {<<"[", "a", ",", "b", "]">>, <<"[", "]">>, <<"{", "k", ":", "v", "}">>, <<"{", "}">>,
   <<"null">>, <<"[", "a">>, <<"{", "k", "}">>}

\* rows for a loader of the column c: without the column, with the column
\* sent without bytes, and with each text
FieldRows ==
  {[d |-> <<"[", "]">>], [c |-> <<>>, null_columns |-> {"c"}]}
  \cup {[c |-> text] : text \in JsonTexts}

\* the fields of the entity before the loader runs: none, c without value,
\* c with a value
EarlierFields ==
  {EmptyMap, [n \in {"c"} |-> MetadataField_name("c")],
   [n \in {"c"} |-> MetadataField_value("c", <<"old">>)]}

FieldLoader(loader, fields, row, name) ==
  CASE loader = "add_field" -> add_field(fields, row, name)
    [] loader = "add_json_list_field" -> add_json_list_field(fields, row, name)
    [] loader = "add_json_map_field" -> add_json_map_field(fields, row, name)

Calls_field_loader ==
  {PendingCall("field_loader", [loader |-> loader, fields |-> fields, row |-> row, name |-> "c"]) :
     loader \in {"add_field", "add_json_list_field", "add_json_map_field"},
     fields \in EarlierFields, row \in FieldRows}

Call_field_loader ==
  Return("field_loader",
         FieldLoader(ret.args.loader, ret.args.fields, ret.args.row, ret.args.name))

\* rows of system.schema_keyspaces for ks1 without strategy_options, with
\* strategy_options sent without bytes, and with each text
StrategyOptionRows ==
  {[keyspace_name |-> "ks1", strategy_class |-> "SimpleStrategy"],
   [keyspace_name |-> "ks1", strategy_class |-> "SimpleStrategy", strategy_options |-> <<>>,
    null_columns |-> {"strategy_options"}]}
  \cup {[keyspace_name |-> "ks1", strategy_class |-> "SimpleStrategy",
          strategy_options |-> text] : text \in JsonTexts}

\* InternalData::update_keyspaces on an empty generation: ks1 is created by
\* the first row and updated again by the following ones
Calls_update_keyspaces ==
  {PendingCall("update_keyspaces", [rows |-> rows]) :
     rows \in SeqsUpTo(StrategyOptionRows, MaxPureTableRows)}

Call_update_keyspaces ==
  Return("update_keyspaces", InternalData_update_keyspaces(EmptyMap, ret.args.rows))

\* rows of system.schema_columnfamilies with compression_parameters, a JSON
\* column the constructor loads before default_validator
CompressionRows ==
  {[keyspace_name |-> "ks1", columnfamily_name |-> "t1", compression_parameters |-> text,
    default_validator |-> "text"] : text \in JsonTexts}

\* TableMetadata(name, version, buffer, row)
Calls_TableMetadata ==
  {PendingCall("TableMetadata", [name |-> "t1", row |-> row]) : row \in CompressionRows}

Call_TableMetadata ==
  Return("TableMetadata", TableMetadata_row(ret.args.name, ret.args.row))

PureCalls ==
  Calls_update_functions \cup Calls_update_aggregates
  \cup Calls_full_function_name
  \cup Calls_build_keys_and_sort
  \cup Calls_get_table_key_columns
  \cup Calls_ingest
  \cup Calls_accessor
  \cup Calls_update_aggregates_referring
  \cup Calls_update_tables
  \cup Calls_by_name
  \cup Calls_update_user_types
  \cup Calls_field_loader
  \cup Calls_update_keyspaces
  \cup Calls_TableMetadata

PureInit ==
  /\ version = 0
  /\ updating = "front"
  /\ front = 1
  /\ back = 2
  /\ kmaps = [h \in {1, 2} |-> EmptyMap]
  /\ tobjs = EmptyMap
  /\ cassandra_version = 0
  /\ mutex = "free"
  /\ pc = "idle"
  /\ call = NoCall
  /\ snapshots = <<>>
  /\ ncalls = 0
  /\ rebuild = NoRebuild
  /\ budget = [calls |-> 0, snapshots |-> 0]
  /\ ret \in PureCalls
  /\ reading = [r \in Readers |-> "idle"]

PureNext ==
  \/ Call_update_functions
  \/ Call_update_aggregates
  \/ Call_full_function_name
  \/ Call_build_keys_and_sort
  \/ Call_get_table_key_columns
  \/ Call_ingest
  \/ Call_accessor
  \/ Call_update_aggregates_referring
  \/ Call_update_tables
  \/ Call_function_by_name
  \/ Call_aggregate_by_name
  \/ Call_update_user_types
  \/ Call_field_loader
  \/ Call_update_keyspaces
  \/ Call_TableMetadata

SpecPure == PureInit /\ [][PureNext]_vars

----------------------------------------------------------------------------
(* Properties *)

Snapshot(i) == snapshots[i]

\* a step of the writer inside an update_* or drop_* call, its first
\* statement included
UpdateDropStep ==
  /\ snapshots' = snapshots
  /\ \/ pc = "idle" /\ pc' = "bumped"
     \/ pc \in {"bumped", "columns"}

\* a step of the writer that writes through back_: clear_and_update_back,
\* an update_* or drop_* applied while updating_ is the back generation, and
\* the back_.clear() that ends swap_to_back_and_update_front and clear
BackWriteStep ==
  /\ snapshots' = snapshots
  /\ \/ pc = "idle" /\ pc' = "idle" /\ ncalls' = ncalls + 1
     \/ pc \in {"bumped", "columns"} /\ updating = "back"
     \/ pc \in {"swap_clear", "clear_back"} /\ pc' = "idle"

\* C1: Snapshot isolation -- whatever the writer does after a snapshot was
\* taken, every lookup through the snapshot gives what it gave when the
\* snapshot was taken.
SnapshotIsolation ==
  \A i \in 1..Len(snapshots) : Content(Snapshot(i).keyspaces) = Snapshot(i).taken

\* C2: Rebuild isolation -- while updating_ is the back generation, no step
\* of an update_* or drop_* call changes the content of the front
\* generation, and every snapshot taken between clear_and_update_back and
\* the next swap (with only update_* and drop_* calls in between) has the
\* content front had when clear_and_update_back was called.
RebuildIsolation ==
  [][/\ (updating = "back" /\ UpdateDropStep)
          => ContentOf(kmaps', tobjs', front') = Content(front)
     /\ \A i \in 1..Len(snapshots') :
          (snapshots'[i].at_updating = "back" /\ snapshots'[i].rebuild.intact)
            => snapshots'[i].taken = snapshots'[i].rebuild.base]_vars

\* a snapshot of a non-empty front generation, taken during a rebuild that
\* has already put a keyspace into the back generation
RebuildIsolationWitness ==
  /\ updating = "back"
  /\ kmaps[back] # EmptyMap
  /\ \E i \in 1..Len(snapshots) :
       /\ Snapshot(i).at_updating = "back"
       /\ Snapshot(i).rebuild.intact
       /\ Snapshot(i).rebuild = rebuild
       /\ Snapshot(i).taken # EmptyMap

\* C3: Rebuild publication -- the locked block of
\* swap_to_back_and_update_front makes the content that schema_snapshot()
\* hands out equal to the content the back generation had accumulated, in
\* one step, and the rest of the call leaves it so.
RebuildPublication ==
  [][/\ (pc = "idle" /\ pc' = "swap_clear")
          => ContentOf(kmaps', tobjs', SnapshotSource') = Content(back)
     /\ (pc = "swap_clear" /\ pc' = "idle")
          => ContentOf(kmaps', tobjs', SnapshotSource') = Content(SnapshotSource)]_vars

\* the swap has just published a rebuilt, non-empty generation
RebuildPublicationWitness ==
  /\ pc = "swap_clear"
  /\ updating = "back"
  /\ Content(front) # EmptyMap

\* C4: No snapshot shows a partially applied call -- while the writer is
\* inside update_tables, no snapshot reaches the table object whose columns
\* the call has loaded so far and whose keys it has not derived yet.
NoSnapshotSeesHalfBuiltTable ==
  \A i \in 1..Len(snapshots) :
    ~ /\ pc = "columns"
      /\ call.table # 0
      /\ call.table \in TablesOf(kmaps[Snapshot(i).keyspaces])
      /\ build_keys_and_sort(tobjs[call.table], cassandra_version) # tobjs[call.table]

\* C5: Version monotonicity -- every update_* and drop_* call, in NORMAL and
\* in REBUILDING state, with or without effect, increments the version by
\* exactly 1: its first statement adds 1 and the version keeps that value
\* until the call returns.
VersionPlusOnePerCall ==
  [][/\ (pc = "idle" /\ pc' = "bumped") => version' = version + 1
     /\ pc \in {"bumped", "columns"} => version' = call.version0 + 1]_vars

\* two calls without effect were made during a rebuild: both generations
\* are empty and the version is 2
VersionPlusOnePerCallWitness ==
  /\ pc = "idle"
  /\ updating = "back"
  /\ ncalls = 3
  /\ version = 2
  /\ kmaps[front] = EmptyMap
  /\ kmaps[back] = EmptyMap

\* C6 as stated: the version counter never decreases.
VersionNeverDecreases == [][version' >= version]_vars

\* C6 amended: the version decreases only in clear(), which sets it to 0;
\* every other step keeps or increases it, and the first statement of an
\* update_* or drop_* call and the locked block of the swap add exactly 1.
VersionDecreasesOnlyInClear ==
  [][IF pc = "idle" /\ pc' = "clear_back"
     THEN version' = 0
     ELSE /\ version' >= version
          /\ (pc = "idle" /\ pc' \in {"bumped", "swap_clear"}) => version' = version + 1]_vars

\* clear() has just reset a version that was greater than 0
VersionDecreasesOnlyInClearWitness ==
  /\ pc = "clear_back"
  /\ call.version0 > 0
  /\ version = 0

\* C7: A snapshot captures version and content consistently -- no snapshot
\* of the NORMAL state is taken at a moment when the version already counts
\* an update_* or drop_* call whose effects are not yet in the front
\* generation.
SnapshotVersionCountsAppliedCalls ==
  \A i \in 1..Len(snapshots) :
    ~(Snapshot(i).at_updating = "front" /\ Snapshot(i).at_pc = "bumped")

\* C8: The version number detects change -- two snapshots with the same
\* version number were handed out with the same keyspace-map content.
SameVersionSameContent ==
  \A i, j \in 1..Len(snapshots) :
    Snapshot(i).version = Snapshot(j).version => Snapshot(i).taken = Snapshot(j).taken

\* C9: Exactly one generation is exposed -- schema_snapshot() hands out the
\* map of the front generation; a write through back_ changes no map held by
\* front_ or by a snapshot; when swap_to_back_and_update_front returns,
\* front_ and back_ hold distinct maps.
OneGenerationExposed ==
  [][/\ Len(snapshots') > Len(snapshots)
          => snapshots'[Len(snapshots')].keyspaces = front
     /\ BackWriteStep
          => \A h \in {front} \cup SnapshotHandles(snapshots) :
               /\ h \in DOMAIN kmaps'
               /\ kmaps'[h] = kmaps[h]
               /\ ContentOf(kmaps', tobjs', h) = Content(h)
     /\ (pc = "swap_clear" /\ pc' = "idle") => front' # back']_vars

\* a snapshot holds a non-empty map while the back generation has been
\* written
OneGenerationExposedWitness ==
  /\ pc = "idle"
  /\ kmaps[back] # EmptyMap
  /\ \E i \in 1..Len(snapshots) : kmaps[Snapshot(i).keyspaces] # EmptyMap

\* C10: A table is replaced wholesale -- a step of the writer modifies no
\* TableMetadata object that existed before the running call, and the table
\* update_columns adds columns to is an object the running call created.
TableReplacedWholesale ==
  [][/\ \A o \in (DOMAIN tobjs) \cap (DOMAIN tobjs') :
          o \notin call.fresh => tobjs'[o] = tobjs[o]
     /\ (pc' = "columns" /\ call'.table # 0) => call'.table \in call'.fresh]_vars

\* the content of the generation updating_ points to, before and after a
\* step
UpdatingContent == Content(Handle(UpdatingGeneration))

UpdatingContentNext ==
  ContentOf(kmaps', tobjs', IF UpdatingGeneration = "front" THEN front' ELSE back')

DropOps == {"drop_keyspace", "drop_table", "drop_user_type", "drop_function",
            "drop_aggregate"}

\* the entity the running drop_* call names is in the updating generation
DropTargetExists ==
  LET m == UpdatingMap
      k == call.keyspace_name
  IN /\ k \in DOMAIN m
     /\ CASE call.op = "drop_keyspace" -> TRUE
          [] call.op = "drop_table" -> call.name \in DOMAIN m[k].tables
          [] call.op = "drop_user_type" -> call.name \in DOMAIN m[k].user_types
          [] call.op = "drop_function" -> call.full_name \in DOMAIN m[k].functions
          [] call.op = "drop_aggregate" -> call.full_name \in DOMAIN m[k].aggregates
          [] OTHER -> FALSE

\* the step in which the running call applies its InternalData operation
\* and returns
ApplyStep == pc = "bumped" /\ pc' = "idle"

\* C11: Drop idempotence -- a drop_* call for a name that is not in the
\* updating generation (a nested drop whose keyspace is missing included)
\* leaves the content of the updating generation as it was, creates no
\* keyspace, and has advanced the version by exactly 1 when it returns.
DropOfMissingNameIsNoOp ==
  [][(ApplyStep /\ call.op \in DropOps /\ ~DropTargetExists)
       => /\ UpdatingContentNext = UpdatingContent
          /\ version' = call.version0 + 1]_vars

\* drop_table is running for a keyspace that the non-empty updating
\* generation does not have; the version is already advanced
DropOfMissingNameIsNoOpWitness ==
  /\ pc = "bumped"
  /\ call.op = "drop_table"
  /\ UpdatingMap # EmptyMap
  /\ call.keyspace_name \notin DOMAIN UpdatingMap
  /\ version = call.version0 + 1

\* the entity map of a keyspace that an update_* operation adds to
EntityKindOf(op) ==
  CASE op = "update_tables" -> "tables"
    [] op = "update_user_types" -> "user_types"
    [] op = "update_functions" -> "functions"
    [] op = "update_aggregates" -> "aggregates"
    [] OTHER -> "none"

\* a keyspace holds nothing but what one step of the operation op can add
HoldsOnlyWhatStepAdds(ks, op) ==
  \A kind \in {"tables", "user_types", "functions", "aggregates"} :
    IF kind = EntityKindOf(op)
    THEN Cardinality(DOMAIN ks[kind]) <= MaxRows
    ELSE ks[kind] = EmptyMap

\* C12: drop_keyspace removes the container -- when drop_keyspace(k)
\* returns, k is not in the updating generation; and a step of a later
\* update_* call that creates k creates it with nothing but what that step
\* adds itself, so no table, user type, function or aggregate that k held
\* before the drop is present.
DropKeyspaceRemovesNested ==
  [][/\ (ApplyStep /\ call.op = "drop_keyspace")
          => call.keyspace_name \notin DOMAIN UpdatingContentNext
     /\ \A k \in Keyspaces :
          (UpdateDropStep /\ k \notin DOMAIN UpdatingContent
                          /\ k \in DOMAIN UpdatingContentNext)
            => HoldsOnlyWhatStepAdds(UpdatingContentNext[k], call.op)]_vars

\* ks1 held a table when the snapshot was taken, was removed, and was
\* created again by update_user_types: it holds the user type and no table
DropKeyspaceRemovesNestedWitness ==
  /\ pc = "idle"
  /\ version = 3
  /\ "ks1" \in DOMAIN Content(front)
  /\ Content(front)["ks1"].tables = EmptyMap
  /\ Content(front)["ks1"].user_types # EmptyMap
  /\ \E i \in 1..Len(snapshots) :
       /\ "ks1" \in DOMAIN Snapshot(i).taken
       /\ Snapshot(i).taken["ks1"].tables # EmptyMap
       /\ Snapshot(i).taken["ks1"].user_types = EmptyMap

\* The canonical signature name as the specification defines it: the name,
\* "(", the arguments that are not empty once their white space is removed,
\* joined by single commas, ")".
StrippedArguments(args) ==
  SelectSeq([i \in 1..Len(args) |-> SelectSeq(args[i], LAMBDA c : c # " ")],
            LAMBDA a : a # <<>>)

RECURSIVE JoinWithCommas(_)
JoinWithCommas(args) ==
  IF args = <<>> THEN <<>>
  ELSE IF Len(args) = 1 THEN args[1]
  ELSE args[1] \o <<",">> \o JoinWithCommas(Tail(args))

CanonicalName(name, args) ==
  name \o <<"(">> \o JoinWithCommas(StrippedArguments(args)) \o <<")">>

\* the indexes of the rows of a result set that carry the entity with the
\* canonical name key: namecol is function_name or aggregate_name
RowsNaming(rows, namecol, key) ==
  {i \in 1..Len(rows) : CanonicalName(rows[i][namecol], rows[i]["signature"]) = key}

LastRowNaming(rows, namecol, key) ==
  rows[CHOOSE i \in RowsNaming(rows, namecol, key) :
         \A j \in RowsNaming(rows, namecol, key) : j <= i]

\* what an entity map holds after the rows were ingested one after the
\* other: one entry per canonical name, made from the last row that has it
KeyedByCanonicalName(entities, rows, namecol, valuecol) ==
  /\ DOMAIN entities =
       {CanonicalName(rows[i][namecol], rows[i]["signature"]) : i \in 1..Len(rows)}
  /\ \A key \in DOMAIN entities :
       LET row == LastRowNaming(rows, namecol, key) IN
       /\ entities[key].name = key
       /\ entities[key].simple_name = row[namecol]
       /\ entities[key].fields[valuecol].value = row[valuecol]

\* C13: Overload isolation -- the functions and the aggregates of a keyspace
\* are keyed by canonical signature name: after a sequence of additions
\* there is one entry per canonical name, overloads of one simple name with
\* different argument types are separate entries, and an addition under an
\* existing canonical name replaces that entry and no other.
OverloadIsolation ==
  /\ (ret.op = "update_functions" /\ ret.done /\ ret.args.rows # <<>>)
       => KeyedByCanonicalName(ret.value["ks1"].functions, ret.args.rows,
                               "function_name", "body")
  /\ (ret.op = "update_aggregates" /\ ret.done /\ ret.args.rows # <<>>)
       => KeyedByCanonicalName(ret.value["ks1"].aggregates, ret.args.rows,
                               "aggregate_name", "initcond")

\* f(int), then f(int,int), then f(int) again with another body: two
\* entries, the first one replaced
OverloadIsolationWitness ==
  /\ ret.op = "update_functions"
  /\ ret.done
  /\ Len(ret.args.rows) = 3
  /\ ret.args.rows[1]["signature"] = <<TypeInt>>
  /\ ret.args.rows[2]["signature"] = <<TypeInt, TypeInt>>
  /\ ret.args.rows[3]["signature"] = <<TypeInt>>
  /\ \A i \in 1..3 : ret.args.rows[i]["function_name"] = <<"f">>
  /\ ret.args.rows[1]["body"] = "b1"
  /\ ret.args.rows[3]["body"] = "b2"
  /\ Cardinality(DOMAIN ret.value["ks1"].functions) = 2

\* C14: Canonical naming -- full_function_name(name, args) is the name, "(",
\* the white-space-stripped arguments that are not empty joined in order by
\* single commas, and ")"; an empty or white-space-only argument adds
\* neither text nor a comma, wherever it stands in the list.
CanonicalNaming ==
  (ret.op = "full_function_name" /\ ret.done)
    => ret.value = CanonicalName(ret.args.name, ret.args.signature)

\* the rank of a column in the order of columns(): partition key columns by
\* position, then clustering key columns by position, then the others
RankBefore(a, b) ==
  LET group(c) == IF c.type = CASS_COLUMN_TYPE_PARTITION_KEY THEN 0
                  ELSE IF c.type = CASS_COLUMN_TYPE_CLUSTERING_KEY THEN 1 ELSE 2
  IN \/ group(a) < group(b)
     \/ group(a) = group(b) /\ group(a) < 2 /\ a.position < b.position

SameRank(a, b) == ~RankBefore(a, b) /\ ~RankBefore(b, a)

\* C15: Modern key derivation order -- after build_keys_and_sort for a
\* server with major version >= 2, columns() has the partition key columns
\* in ascending position, then the clustering key columns in ascending
\* position, then the other columns; columns of equal rank are in their
\* ingestion order, and the columns are those that were ingested.
ModernColumnOrder ==
  (ret.op = "build_keys_and_sort" /\ ret.done /\ ret.args.major >= 2)
    => LET ingested == ret.args.table.columns
           columns == ret.value.columns
       IN /\ Len(columns) = Len(ingested)
          /\ \A i, j \in 1..Len(columns) : i < j => ~RankBefore(columns[j], columns[i])
          /\ \A c \in Range(ingested) \cup Range(columns) :
               SelectSeq(columns, LAMBDA x : SameRank(x, c))
                 = SelectSeq(ingested, LAMBDA x : SameRank(x, c))

\* the columns x, b (clustering, 1), a (clustering, 0), i (partition, 0)
\* were ingested in this order and columns() is i, a, b, x
ModernColumnOrderWitness ==
  /\ ret.op = "build_keys_and_sort"
  /\ ret.done
  /\ ret.args.major >= 2
  /\ [n \in 1..Len(ret.args.table.columns) |-> ret.args.table.columns[n].name]
       = << <<"x">>, <<"b">>, <<"a">>, <<"i">> >>
  /\ [n \in 1..Len(ret.value.columns) |-> ret.value.columns[n].name]
       = << <<"i">>, <<"a">>, <<"b">>, <<"x">> >>

\* the key_validator parse result and the key_aliases of a table, as the
\* table row gave them
KeyValidatorOf(t) ==
  IF HasValue(t.fields, "key_validator") THEN t.fields["key_validator"].value
  ELSE [types |-> <<>>, is_composite |-> FALSE, collections |-> FALSE]

KeyAliasesOf(t) ==
  IF HasValue(t.fields, "key_aliases") THEN t.fields["key_aliases"].value ELSE <<>>

\* C16: Legacy partition key -- after build_keys_and_sort for a server with
\* major version < 2, partition_key has one entry per component type of
\* key_validator, in validator order; entry i has position i, the type
\* partition key and the data type of component i, and the name
\* key_aliases[i] when the alias list has an i-th element; without aliases
\* and with a single component the partition key is the one column "key".
LegacyPartitionKeyDerivation ==
  (ret.op = "build_keys_and_sort" /\ ret.done /\ ret.args.major < 2)
    => LET types == KeyValidatorOf(ret.args.table).types
           aliases == KeyAliasesOf(ret.args.table)
           partition_key == ret.value.partition_key
       IN /\ Len(partition_key) = Len(types)
          /\ \A i \in 1..Len(partition_key) :
               /\ partition_key[i].position = i - 1
               /\ partition_key[i].type = CASS_COLUMN_TYPE_PARTITION_KEY
               /\ partition_key[i].data_type = types[i]
               /\ i <= Len(aliases) => partition_key[i].name = aliases[i]
          /\ (aliases = <<>> /\ Len(types) = 1)
               => partition_key[1].name = <<"k", "e", "y">>

\* a two-component validator with the aliases k1, k2 gave the partition key
\* k1, k2
LegacyPartitionKeyDerivationWitness ==
  /\ ret.op = "build_keys_and_sort"
  /\ ret.done
  /\ ret.args.major < 2
  /\ Len(KeyValidatorOf(ret.args.table).types) = 2
  /\ KeyAliasesOf(ret.args.table) = << <<"k", "1">>, <<"k", "2">> >>
  /\ [n \in 1..Len(ret.value.partition_key) |-> ret.value.partition_key[n].name]
       = << <<"k", "1">>, <<"k", "2">> >>

\* the key column names of a table as the specification defines them: the
\* key_aliases when there are any, otherwise "key", "key2", "key3", ... for
\* the components of key_validator
KeyColumnNames(t) ==
  IF KeyAliasesOf(t) # <<>> THEN KeyAliasesOf(t)
  ELSE [i \in 1..Len(KeyValidatorOf(t).types) |->
          IF i = 1 THEN <<"k", "e", "y">>
          ELSE <<"k", "e", "y">> \o <<(<<"0", "1", "2", "3", "4", "5", "6", "7", "8", "9">>)[i + 1]>>]

\* C17: get_table_key_columns -- the call adds to the output vector the key
\* column names of the table: its key_aliases in order when there are any,
\* otherwise one synthesized name per key_validator component; when the
\* keyspace or the table is not in the snapshot the output is as it was.
TableKeyColumns ==
  (ret.op = "get_table_key_columns" /\ ret.done)
    => LET keyspaces == ret.args.keyspaces
           present == /\ ret.args.ks_name \in DOMAIN keyspaces
                      /\ ret.args.table_name \in DOMAIN keyspaces[ret.args.ks_name].tables
       IN ret.value =
            IF present
            THEN ret.args.output
                   \o KeyColumnNames(keyspaces[ret.args.ks_name].tables[ret.args.table_name])
            ELSE ret.args.output

\* the name columns the loop of an update_* operation requires of a row
RequiredNames(op) ==
  CASE op = "update_keyspaces" -> {"keyspace_name"}
    [] op = "update_tables" -> {"keyspace_name", "columnfamily_name"}
    [] op = "update_columns" -> {"keyspace_name", "columnfamily_name", "column_name"}
    [] op = "update_user_types" -> {"keyspace_name", "type_name"}
    [] op = "update_functions" -> {"keyspace_name", "function_name", "signature"}
    [] op = "update_aggregates" -> {"keyspace_name", "aggregate_name", "signature"}

\* a result set without its rows that lack a required name column
WithoutMalformedRows(op, rows) ==
  SelectSeq(rows, LAMBDA row : RequiredNames(op) \subseteq DOMAIN row)

\* C18: Malformed rows are skipped -- an update_* operation on a result set
\* with rows that lack a required name column gives what it gives on the
\* result set without those rows: such a row adds or changes nothing and
\* the other rows are applied as if it were absent.
MalformedRowsSkipped ==
  (ret.op = "ingest" /\ ret.done)
    => ret.value = Ingest(ret.args.op,
                          WithoutMalformedRows(ret.args.op, ret.args.rows),
                          WithoutMalformedRows("update_columns", ret.args.columns_result))

\* columns_result had a row without column_name between two rows of ks1.t1,
\* and the table has both columns
MalformedRowsSkippedWitness ==
  /\ ret.op = "ingest"
  /\ ret.done
  /\ ret.args.op = "update_tables"
  /\ Len(ret.args.columns_result) = 3
  /\ "column_name" \in DOMAIN ret.args.columns_result[1]
  /\ "column_name" \notin DOMAIN ret.args.columns_result[2]
  /\ "columnfamily_name" \in DOMAIN ret.args.columns_result[2]
  /\ "column_name" \in DOMAIN ret.args.columns_result[3]
  /\ DOMAIN ret.value = {"ks1"}
  /\ Len(ret.value["ks1"].tables["t1"].columns) >= 2

\* the list a positional accessor indexes
AccessorList(fn, meta) ==
  CASE fn = "cass_table_meta_column" -> meta.columns
    [] fn = "cass_table_meta_partition_key" -> meta.partition_key
    [] fn = "cass_table_meta_clustering_key" -> meta.clustering_key
    [] fn = "cass_function_meta_argument" -> meta.args
    [] fn = "cass_aggregate_meta_argument_type" -> meta.arg_types

\* C19: Positional accessors -- with index >= size, the three table
\* accessors and cass_aggregate_meta_argument_type return NULL and
\* cass_function_meta_argument returns CASS_ERROR_LIB_INDEX_OUT_OF_BOUNDS
\* leaving its outputs as they were; with index < size each returns the
\* element at that position.
PositionalAccessors ==
  (ret.op = "accessor" /\ ret.done)
    => LET fn == ret.args.fn
           list == AccessorList(fn, ret.args.meta)
           index == ret.args.index
       IN IF fn = "cass_function_meta_argument"
          THEN IF index >= Len(list)
               THEN /\ ret.value.rc = "CASS_ERROR_LIB_INDEX_OUT_OF_BOUNDS"
                    /\ ret.value.name = CallerOutputs.name
                    /\ ret.value.name_length = CallerOutputs.name_length
                    /\ ret.value.type = CallerOutputs.type
               ELSE /\ ret.value.rc = "CASS_OK"
                    /\ ret.value.name = <<list[index + 1].name>>
                    /\ ret.value.name_length = Len(list[index + 1].name)
                    /\ ret.value.type = <<list[index + 1].type>>
          ELSE IF index >= Len(list)
               THEN ret.value = NULL
               ELSE ret.value = <<list[index + 1]>>

\* cass_function_meta_argument was called with index = size on a function
\* with two arguments
PositionalAccessorsWitness ==
  /\ ret.op = "accessor"
  /\ ret.done
  /\ ret.args.fn = "cass_function_meta_argument"
  /\ Len(ret.args.meta.args) = 2
  /\ ret.args.index = 2
  /\ ret.value.rc = "CASS_ERROR_LIB_INDEX_OUT_OF_BOUNDS"

\* the canonical names of the functions that function_rows put in ks1
LoadedFunctionNames(function_rows) ==
  {CanonicalName(function_rows[i]["function_name"], function_rows[i]["signature"]) :
     i \in {j \in 1..Len(function_rows) : function_rows[j]["keyspace_name"] = "ks1"}}

\* the canonical name the aggregate of row refers to as its final function
\* (the state type alone) or as its state function (the state type, then the
\* signature of the aggregate)
ReferredName(row, column) ==
  CanonicalName(row[column],
                IF column = "final_func" THEN <<row["state_type"]>>
                ELSE <<row["state_type"]>> \o row["signature"])

\* the row has a reference in column that names no loaded function
Unresolved(row, column, function_rows) ==
  /\ column \in DOMAIN row
  /\ ReferredName(row, column) \notin LoadedFunctionNames(function_rows)

\* C20: Unresolved aggregate reference -- an aggregate whose state_func or
\* final_func names a function that is not in the function map of the
\* keyspace is still added under its canonical name, with that reference
\* unset, and the other rows of the result set are processed: every row has
\* its entry, made from the last row with that canonical name.
UnresolvedAggregateReference ==
  (ret.op = "update_aggregates_referring" /\ ret.done /\ ret.args.rows # <<>>)
    => LET rows == ret.args.rows
           aggregates == ret.value["ks1"].aggregates
       IN /\ DOMAIN aggregates =
               {CanonicalName(rows[i]["aggregate_name"], rows[i]["signature"]) :
                  i \in 1..Len(rows)}
          /\ \A key \in DOMAIN aggregates :
               LET row == LastRowNaming(rows, "aggregate_name", key) IN
               /\ aggregates[key].simple_name = row["aggregate_name"]
               /\ Unresolved(row, "state_func", ret.args.function_rows)
                    => aggregates[key].state_func = NullFunction
               /\ Unresolved(row, "final_func", ret.args.function_rows)
                    => aggregates[key].final_func = NullFunction
               /\ \A column \in {"state_func", "final_func"} :
                    column \in DOMAIN row => aggregates[key].fields[column].value = row[column]

\* the first row refers to f(int,int) while only f(int) is loaded; it is
\* added without a state function and the row after it is added too
UnresolvedAggregateReferenceWitness ==
  /\ ret.op = "update_aggregates_referring"
  /\ ret.done
  /\ LoadedFunctionNames(ret.args.function_rows) = {<<"f", "(", "i", "n", "t", ")">>}
  /\ Len(ret.args.rows) = 2
  /\ Unresolved(ret.args.rows[1], "state_func", ret.args.function_rows)
  /\ ret.args.rows[1]["aggregate_name"] = <<"a">>
  /\ ret.args.rows[2]["aggregate_name"] = <<"h">>
  /\ Cardinality(DOMAIN ret.value["ks1"].aggregates) = 2
  /\ ret.value["ks1"].aggregates[<<"a", "(", "i", "n", "t", ")">>].state_func = NullFunction

\* C21: No deadlock -- with readers calling schema_snapshot() and one
\* writer calling mutating operations, under fair scheduling every
\* schema_snapshot() call and every mutating call eventually returns.
EveryCallReturns ==
  /\ \A r \in Readers : (reading[r] # "idle") ~> (reading[r] = "idle")
  /\ (pc # "idle") ~> (pc = "idle")

\* a reader waits for the mutex while the writer holds it inside
\* update_tables and another reader has called too
EveryCallReturnsWitness ==
  /\ mutex = "writer"
  /\ pc = "columns"
  /\ \A r \in Readers : reading[r] = "waiting"

\* the rows of columns_result that belong to table t of keyspace k
RowsOfTable(rows, k, t) ==
  {i \in 1..Len(rows) : rows[i]["keyspace_name"] = k /\ rows[i]["columnfamily_name"] = t}

\* the last run of consecutive rows of table t of keyspace k
LastGroup(rows, k, t) ==
  LET last == CHOOSE i \in RowsOfTable(rows, k, t) : \A j \in RowsOfTable(rows, k, t) : j <= i
  IN {i \in 1..last : \A x \in i..last : x \in RowsOfTable(rows, k, t)}

\* C22: update_columns groups consecutive column rows by (keyspace, table):
\* the columns of a group are added to the table of its keyspace and name,
\* so every table named by a column row is in its keyspace and holds the
\* columns of its last group -- also when the group before it has the same
\* table name in another keyspace.
ColumnsGroupedByKeyspaceAndTable ==
  (ret.op = "update_tables" /\ ret.done)
    => LET rows == ret.args.columns_result IN
       \A i \in 1..Len(rows) :
         LET k == rows[i]["keyspace_name"]
             t == rows[i]["columnfamily_name"]
         IN /\ k \in DOMAIN ret.value
            /\ t \in DOMAIN ret.value[k].tables
            /\ DOMAIN ret.value[k].tables[t].columns_by_name
                 = {rows[x]["column_name"] : x \in LastGroup(rows, k, t)}

\* C23: Key derivation is invoked for every table that update_tables
\* ingests -- when update_tables returns on a legacy server, the partition
\* key of every table created from tables_result has one column per
\* component of its key_validator, also when columns_result has no row for
\* the table.
KeysDerivedForEveryTable ==
  (ret.op = "update_tables" /\ ret.done /\ ret.args.major < 2)
    => \A i \in 1..Len(ret.args.tables_result) :
         LET row == ret.args.tables_result[i]
             table == ret.value[row["keyspace_name"]].tables[row["columnfamily_name"]]
         IN Len(table.partition_key) = Len(row["key_validator"].types)

\* the columns of the given type among columns
ColumnsOfType(columns, type) ==
  {columns[i] : i \in {x \in 1..Len(columns) : columns[x].type = type}}

\* the key sequence keys has one slot per column of the type; a column of
\* the type with a position inside the slots is at the slot of its position,
\* one with a position outside is in no slot of either sequence
KeySlots(keys, columns, type, t) ==
  /\ Len(keys) = Cardinality({x \in 1..Len(columns) : columns[x].type = type})
  /\ \A column \in ColumnsOfType(columns, type) :
       IF column.position >= 0 /\ column.position < Len(keys)
       THEN keys[column.position + 1] = column
       ELSE /\ \A x \in 1..Len(t.partition_key) : t.partition_key[x] # column
            /\ \A x \in 1..Len(t.clustering_key) : t.clustering_key[x] # column

SynthesizedName(base, i) ==
  IF i = 0 THEN base ELSE base \o Decimal(i + 1)

ColumnAliasesOf(t) ==
  IF HasValue(t.fields, "column_aliases") THEN t.fields["column_aliases"].value ELSE <<>>

\* C25: Legacy synthesized key names -- after build_keys_and_sort for
\* major < 2, a partition key component i (from 0) that key_aliases does
\* not cover is named "key" for i = 0 and "key" followed by the decimal
\* i + 1 for i > 0; a clustering component that column_aliases does not
\* cover is named "column", "column2", "column3", ... likewise.
LegacySynthesizedKeyNames ==
  (ret.op = "build_keys_and_sort" /\ ret.done /\ ret.args.major < 2)
    => /\ \A i \in 0..(Len(ret.value.partition_key) - 1) :
            i >= Len(KeyAliasesOf(ret.args.table))
              => ret.value.partition_key[i + 1].name = SynthesizedName(<<"k", "e", "y">>, i)
       /\ \A i \in 0..(Len(ret.value.clustering_key) - 1) :
            i >= Len(ColumnAliasesOf(ret.args.table))
              => ret.value.clustering_key[i + 1].name
                   = SynthesizedName(<<"c", "o", "l", "u", "m", "n">>, i)

ComparatorOf(t) ==
  IF HasValue(t.fields, "comparator") THEN t.fields["comparator"].value
  ELSE [types |-> <<>>, is_composite |-> FALSE, collections |-> FALSE]

\* a legacy call on a table whose comparator is composite, or is not
LegacyCall(composite) ==
  /\ ret.op = "build_keys_and_sort"
  /\ ret.done
  /\ ret.args.major < 2
  /\ "comparator" \in DOMAIN ret.args.table.fields
  /\ ComparatorOf(ret.args.table).is_composite = composite

\* the last component of the comparator ends with text and column_aliases
\* has one name less than the comparator has components
TrailingTextMarker(t) ==
  /\ Len(ColumnAliasesOf(t)) = Len(ComparatorOf(t).types) - 1
  /\ ComparatorOf(t).types[Len(ComparatorOf(t).types)] = "text"

\* the clustering key has every component of the comparator but the last,
\* or every component
LastComponentDropped == Len(ret.value.clustering_key) = Len(ComparatorOf(ret.args.table).types) - 1

AllComponentsKept == Len(ret.value.clustering_key) = Len(ComparatorOf(ret.args.table).types)

\* C26 as stated: Legacy composite comparator -- the last component is
\* dropped exactly when the comparator declares no embedded collection
\* types and column_aliases has one name less than there are components and
\* the last component is text; otherwise all components are clustering
\* columns.
LastComponentDroppedWithoutCollections ==
  LegacyCall(TRUE)
    => IF ~ComparatorOf(ret.args.table).collections /\ TrailingTextMarker(ret.args.table)
       THEN LastComponentDropped
       ELSE AllComponentsKept

\* C26: Legacy composite comparator -- the last component is dropped exactly
\* when the comparator declares embedded collection types, or column_aliases
\* has one name less than there are components and the last component is
\* text; in every other composite case all components are clustering
\* columns.
LastComponentDroppedForCollectionsOrMarker ==
  LegacyCall(TRUE)
    => IF ComparatorOf(ret.args.table).collections \/ TrailingTextMarker(ret.args.table)
       THEN LastComponentDropped
       ELSE AllComponentsKept

\* a composite comparator (int, int) with embedded collections and two
\* column aliases: the clustering key has one column
LastComponentDroppedForCollectionsOrMarkerWitness ==
  /\ LegacyCall(TRUE)
  /\ ComparatorOf(ret.args.table).collections
  /\ ComparatorOf(ret.args.table).types = <<"int", "int">>
  /\ Len(ColumnAliasesOf(ret.args.table)) = 2
  /\ Len(ret.value.clustering_key) = 1
  /\ ret.value.clustering_key[1].name = <<"c", "1">>

\* C27 as stated: Legacy non-composite comparator -- the clustering key has
\* one column per comparator component when column_aliases is non-empty or
\* the table has columns loaded from column rows, and is empty when
\* column_aliases is empty and the table has no such columns.
ClusteringKeyNeedsAliasesOrColumns ==
  LegacyCall(FALSE)
    => IF ColumnAliasesOf(ret.args.table) # <<>> \/ ret.args.table.columns # <<>>
       THEN AllComponentsKept
       ELSE ret.value.clustering_key = <<>>

\* C27: Legacy non-composite comparator -- the clustering key has one column
\* per comparator component when column_aliases is non-empty or the table
\* has no columns loaded from column rows, and is empty when column_aliases
\* is empty and the table has such columns.
ClusteringKeyNeedsAliasesOrNoColumns ==
  LegacyCall(FALSE)
    => IF ColumnAliasesOf(ret.args.table) # <<>> \/ ret.args.table.columns = <<>>
       THEN AllComponentsKept
       ELSE ret.value.clustering_key = <<>>

\* a comparator text that is not composite, no column aliases and the
\* columns x, y: the clustering key is empty
ClusteringKeyNeedsAliasesOrNoColumnsWitness ==
  /\ LegacyCall(FALSE)
  /\ ColumnAliasesOf(ret.args.table) = <<>>
  /\ Len(ret.args.table.columns) = 2
  /\ ret.value.clustering_key = <<>>
  /\ Len(ret.value.columns) = 3

\* C28: Legacy column order -- after build_keys_and_sort for major < 2,
\* columns() is partition_key, then clustering_key, then the columns loaded
\* from the column rows in the order of their ingestion, and its length is
\* the sum of the three lengths.
LegacyColumnOrder ==
  (ret.op = "build_keys_and_sort" /\ ret.done /\ ret.args.major < 2)
    => /\ ret.value.columns
            = ret.value.partition_key \o ret.value.clustering_key \o ret.args.table.columns
       /\ Len(ret.value.columns)
            = Len(ret.value.partition_key) + Len(ret.value.clustering_key)
              + Len(ret.args.table.columns)

\* one partition key column, two clustering key columns and the loaded
\* columns y, x: columns() has the five in this order
LegacyColumnOrderWitness ==
  /\ ret.op = "build_keys_and_sort"
  /\ ret.done
  /\ ret.args.major < 2
  /\ Len(ret.value.partition_key) = 1
  /\ Len(ret.value.clustering_key) = 2
  /\ [n \in 1..Len(ret.args.table.columns) |-> ret.args.table.columns[n].name]
       = << <<"y">>, <<"x">> >>
  /\ Len(ret.value.columns) = 5
  /\ ret.value.columns[1].type = CASS_COLUMN_TYPE_PARTITION_KEY
  /\ ret.value.columns[3].type = CASS_COLUMN_TYPE_CLUSTERING_KEY
  /\ ret.value.columns[4].name = <<"y">>
  /\ ret.value.columns[5].name = <<"x">>

\* TableMetadata::get_column(name) of table t: the column, or NULL
get_column(t, name) ==
  IF name \in DOMAIN t.columns_by_name THEN PointerTo(t.columns_by_name[name]) ELSE NULL

\* C29: Column sequence and name index stay consistent -- when update_tables
\* has returned, in every table each column of columns() is the column that
\* get_column gives for its name, and the name index holds no column that
\* is absent from columns().
ColumnsAndNameIndexConsistent ==
  (ret.op = "update_tables" /\ ret.done)
    => \A k \in DOMAIN ret.value : \A n \in DOMAIN ret.value[k].tables :
         LET t == ret.value[k].tables[n] IN
         /\ \A i \in 1..Len(t.columns) :
              get_column(t, t.columns[i].name) = PointerTo(t.columns[i])
         /\ \A name \in DOMAIN t.columns_by_name :
              \E i \in 1..Len(t.columns) : t.columns[i] = t.columns_by_name[name]

\* C30: for a legacy table on which key derivation has run, the names that
\* get_table_key_columns gives to an empty output vector are, in the same
\* order, the names of the columns of the table's partition_key, whatever
\* the length of key_aliases and the number of key_validator components.
KeyColumnsArePartitionKeyNames ==
  (/\ ret.op = "get_table_key_columns"
   /\ ret.done
   /\ ret.args.output = <<>>
   /\ ret.args.ks_name \in DOMAIN ret.args.keyspaces
   /\ ret.args.table_name \in DOMAIN ret.args.keyspaces[ret.args.ks_name].tables)
    => LET t == ret.args.keyspaces[ret.args.ks_name].tables[ret.args.table_name] IN
       Len(t.partition_key) = Len(KeyValidatorOf(t).types)
         => ret.value = [i \in 1..Len(t.partition_key) |-> t.partition_key[i].name]

\* C31: Public lookup key equals storage key -- an entity registered under
\* full_function_name(name, signature) is the one that
\* cass_keyspace_meta_function_by_name / cass_keyspace_meta_aggregate_by_name
\* returns for the same name and the signature written as a comma-separated
\* argument string.
PublicLookupFindsRegistered ==
  /\ (ret.op = "cass_keyspace_meta_function_by_name" /\ ret.done)
       => ret.value = get_function(ret.args.keyspace_meta,
                                   full_function_name(ret.args.name, ret.args.signature))
  /\ (ret.op = "cass_keyspace_meta_aggregate_by_name" /\ ret.done)
       => ret.value = get_aggregate(ret.args.keyspace_meta,
                                    full_function_name(ret.args.name, ret.args.signature))

\* the function the aggregate of row refers to in column, looked up in the
\* function map functions: the unset pointer when the row has no such
\* column or the map has no function of that canonical name
Resolved(row, column, functions) ==
  IF column \in DOMAIN row /\ ReferredName(row, column) \in DOMAIN functions
  THEN functions[ReferredName(row, column)]
  ELSE NullFunction

\* C32: Aggregate reference resolution -- when update_aggregates builds an
\* aggregate, state_func is the function that the function map of the
\* aggregate's keyspace holds under the canonical name of (state_func name,
\* state_type followed by the aggregate's signature), final_func the one it
\* holds under (final_func name, state_type); each is set exactly when the
\* map of that keyspace has the name.
AggregateReferenceResolution ==
  (ret.op = "update_aggregates_referring" /\ ret.done /\ ret.args.rows # <<>>)
    => LET rows == ret.args.rows
           functions == ret.value["ks1"].functions
           aggregates == ret.value["ks1"].aggregates
       IN \A key \in DOMAIN aggregates :
            LET row == LastRowNaming(rows, "aggregate_name", key) IN
            /\ aggregates[key].state_func = Resolved(row, "state_func", functions)
            /\ aggregates[key].final_func = Resolved(row, "final_func", functions)

\* g(int) is loaded in ks1 and in ks2 and f(int,int) in no keyspace: the
\* aggregate a(int) of ks1 has the g of ks1 as its final function and no
\* state function
AggregateReferenceResolutionWitness ==
  /\ ret.op = "update_aggregates_referring"
  /\ ret.done
  /\ Len(ret.args.function_rows) = 2
  /\ ret.args.function_rows[1]["keyspace_name"] = "ks1"
  /\ ret.args.function_rows[2]["keyspace_name"] = "ks2"
  /\ ret.args.function_rows[1]["function_name"] = <<"g">>
  /\ Len(ret.args.rows) = 1
  /\ "state_func" \in DOMAIN ret.args.rows[1]
  /\ "final_func" \in DOMAIN ret.args.rows[1]
  /\ ret.value["ks1"].aggregates[<<"a", "(", "i", "n", "t", ")">>].final_func.fields["body"].value = "b1"
  /\ ret.value["ks1"].aggregates[<<"a", "(", "i", "n", "t", ")">>].state_func = NullFunction

\* the references of the aggregates of the keyspace map m
AggregateReferences(m) ==
  [k \in DOMAIN m |->
     [a \in DOMAIN m[k].aggregates |->
        [state_func |-> m[k].aggregates[a].state_func,
         final_func |-> m[k].aggregates[a].final_func]]]

\* C33: Aggregate references are resolved once -- the step of drop_function
\* or update_functions that changes the function map of the generation
\* being updated leaves state_func and final_func of every aggregate of that
\* generation as they were resolved, also when the referenced function is
\* dropped or redefined by the step.
AggregateReferencesKept ==
  [][(pc = "bumped" /\ call.op \in {"drop_function", "update_functions"} /\ pc' = "idle")
       => \A k \in DOMAIN UpdatingMap :
            /\ k \in DOMAIN UpdatingMap'
            /\ AggregateReferences(UpdatingMap')[k] = AggregateReferences(UpdatingMap)[k]]_vars

\* the aggregate g(int) of ks1 still has the function f(int) as its final
\* function after f(int) was dropped from the keyspace
AggregateReferencesKeptWitness ==
  /\ pc = "idle"
  /\ "ks1" \in DOMAIN kmaps[front]
  /\ \E a \in DOMAIN kmaps[front]["ks1"].aggregates :
       /\ kmaps[front]["ks1"].aggregates[a].final_func # NullFunction
       /\ kmaps[front]["ks1"].aggregates[a].final_func.name
            \notin DOMAIN kmaps[front]["ks1"].functions

\* the step of clear_and_update_back: the only call of the writer that is
\* one step of the model
ClearAndUpdateBackStep == pc = "idle" /\ pc' = "idle" /\ ncalls' = ncalls + 1

\* C34: clear_and_update_back() leaves the version and the content of the
\* front generation as they are, leaves the back generation empty and makes
\* it the generation the update_* and drop_* calls write to; called in the
\* state a previous clear_and_update_back() left, it changes nothing that a
\* lookup or a following call sees; the target goes back to the front
\* generation only at the end of swap_to_back_and_update_front().
ClearAndUpdateBackFrame ==
  [][/\ ClearAndUpdateBackStep
          => /\ version' = version
             /\ ContentOf(kmaps', tobjs', front') = Content(front)
             /\ ContentOf(kmaps', tobjs', back') = EmptyMap
             /\ UpdatingGeneration' = "back"
             /\ \A i \in 1..Len(snapshots) :
                  ContentOf(kmaps', tobjs', snapshots'[i].keyspaces)
                    = Content(snapshots[i].keyspaces)
             /\ (UpdatingGeneration = "back" /\ Content(back) = EmptyMap)
                  => /\ ContentOf(kmaps', tobjs', back') = Content(back)
                     /\ UpdatingGeneration' = UpdatingGeneration
     /\ (UpdatingGeneration = "back" /\ UpdatingGeneration' # "back")
          => (pc = "swap_clear" /\ call.op = "swap_to_back_and_update_front")]_vars

\* clear_and_update_back() was called on a catalog whose front generation
\* holds a keyspace: front still holds it, back is empty and is the target
ClearAndUpdateBackFrameWitness ==
  /\ pc = "idle"
  /\ ncalls = 2
  /\ version = 1
  /\ updating = "back"
  /\ rebuild.intact
  /\ Content(front) # EmptyMap
  /\ Content(back) = EmptyMap

\* C35: swap_to_back_and_update_front() -- its locked block adds exactly 1
\* to the version and makes the content of the back generation the content
\* of the front generation in one step; when the call returns the version
\* and the front content are those the block left, the back generation is
\* empty and the front generation is the one the update_* and drop_* calls
\* write to, until clear_and_update_back() is called.
SwapInstallsBack ==
  [][/\ (pc = "idle" /\ pc' = "swap_clear")
          => /\ mutex = "free"
             /\ version' = version + 1
             /\ ContentOf(kmaps', tobjs', front') = Content(back)
     /\ (pc = "swap_clear" /\ pc' = "idle")
          => /\ version' = call.version0 + 1
             /\ ContentOf(kmaps', tobjs', front') = Content(front)
             /\ ContentOf(kmaps', tobjs', back') = EmptyMap
             /\ UpdatingGeneration' = "front"
     /\ (UpdatingGeneration = "front" /\ UpdatingGeneration' # "front")
          => ClearAndUpdateBackStep]_vars

\* a keyspace was put into the back generation and the swap has returned:
\* front holds it, back is empty, the version counts the update and the swap
SwapInstallsBackWitness ==
  /\ pc = "idle"
  /\ ncalls = 3
  /\ version = 2
  /\ updating = "front"
  /\ Content(front) # EmptyMap
  /\ Content(back) = EmptyMap

\* the snapshots handed out before the step have the version and give the
\* content they had
SnapshotsKept ==
  \A i \in 1..Len(snapshots) :
    /\ snapshots'[i].version = snapshots[i].version
    /\ ContentOf(kmaps', tobjs', snapshots'[i].keyspaces) = Content(snapshots[i].keyspaces)

\* C36: clear() is a full reset -- from its locked block on a new snapshot
\* has version 0 and no keyspace; when it returns the back generation is
\* empty too; the snapshots taken before keep their version and content
\* through both steps of the call.
ClearIsFullReset ==
  [][/\ (pc = "idle" /\ pc' = "clear_back")
          => /\ version' = 0
             /\ ContentOf(kmaps', tobjs', SnapshotSource') = EmptyMap
             /\ SnapshotsKept
     /\ (pc = "clear_back" /\ pc' = "idle")
          => /\ version' = 0
             /\ ContentOf(kmaps', tobjs', SnapshotSource') = EmptyMap
             /\ ContentOf(kmaps', tobjs', back') = EmptyMap
             /\ SnapshotsKept]_vars

\* clear() has returned on a catalog of which a snapshot with version 1 and
\* a keyspace had been taken: the snapshot still has both
ClearIsFullResetWitness ==
  /\ pc = "idle"
  /\ ncalls = 2
  /\ version = 0
  /\ Content(front) = EmptyMap
  /\ \E i \in 1..Len(snapshots) :
       /\ Snapshot(i).version = 1
       /\ Content(Snapshot(i).keyspaces) # EmptyMap

\* C37: after clear() returns the catalog is in NORMAL state, whatever
\* state it was called in: the generation the next update_* or drop_* call
\* writes to is the front generation, the one schema_snapshot() hands out.
NormalAfterClear ==
  [][(pc = "clear_back" /\ pc' = "idle")
       => /\ UpdatingGeneration' = "front"
          /\ Handle(UpdatingGeneration)' = SnapshotSource']_vars

\* the field lists of a row of system.schema_usertypes are well-formed: of
\* the same length, without null element and with type strings that parse
WellFormedFieldLists(row) ==
  /\ Len(row["field_names"]) = Len(row["field_types"])
  /\ \A i \in 1..Len(row["field_names"]) : row["field_names"][i] # NullElement
  /\ \A i \in 1..Len(row["field_types"]) :
       row["field_types"][i] \notin {NullElement, UnparsableType}

\* C38: User-type rows with malformed field lists are skipped -- after
\* update_user_types the keyspace holds a user type for exactly the type
\* names of the rows with well-formed field lists, each with the fields of
\* the last such row; a row with malformed lists adds no type and replaces
\* none.
MalformedFieldListsSkipped ==
  (ret.op = "update_user_types" /\ ret.done /\ ret.args.rows # <<>>)
    => LET rows == ret.args.rows
           good == {i \in 1..Len(rows) : WellFormedFieldLists(rows[i])}
           user_types == ret.value["ks1"].user_types
       IN /\ DOMAIN user_types = {rows[i]["type_name"] : i \in good}
          /\ \A name \in DOMAIN user_types :
               LET last == CHOOSE i \in good :
                             /\ rows[i]["type_name"] = name
                             /\ \A j \in good : rows[j]["type_name"] = name => j <= i
               IN user_types[name].fields =
                    [f \in 1..Len(rows[last]["field_names"]) |->
                       [name |-> rows[last]["field_names"][f],
                        type |-> rows[last]["field_types"][f]]]

\* the column name of row has bytes that do not parse as JSON
DoesNotParse(row, name) ==
  /\ name \in DOMAIN row
  /\ Value_size(row, name) > 0
  /\ ParseInsitu(row[name]).HasParseError

\* C39: JSON parse failure leaves the field unset -- when the text of the
\* column does not parse, the entity has no field of that name after
\* add_json_list_field or add_json_map_field: a new entity, a table whose
\* remaining columns are loaded all the same, and a keyspace that
\* update_keyspaces created from an earlier row and updates again.
JsonParseFailureLeavesFieldUnset ==
  /\ (/\ ret.op = "field_loader" /\ ret.done
      /\ ret.args.loader \in {"add_json_list_field", "add_json_map_field"}
      /\ ret.args.fields = EmptyMap
      /\ DoesNotParse(ret.args.row, ret.args.name))
       => ret.args.name \notin DOMAIN ret.value
  /\ (ret.op = "TableMetadata" /\ ret.done
      /\ DoesNotParse(ret.args.row, "compression_parameters"))
       => /\ "compression_parameters" \notin DOMAIN ret.value.fields
          /\ HasValue(ret.value.fields, "default_validator")
  /\ (ret.op = "update_keyspaces" /\ ret.done /\ ret.args.rows # <<>>
      /\ DoesNotParse(ret.args.rows[Len(ret.args.rows)], "strategy_options"))
       => /\ "strategy_options" \notin DOMAIN ret.value["ks1"].fields
          /\ HasValue(ret.value["ks1"].fields, "strategy_class")

\* the Value a loader stores for a column with bytes: add_field the bytes
\* themselves, the JSON loaders the collection of the document's strings
StoredValue(loader, text) ==
  CASE loader = "add_field" -> text
    [] loader = "add_json_list_field" ->
         CollectionValue("CASS_VALUE_TYPE_LIST", Len(ParseInsitu(text).strings),
                         ParseInsitu(text).strings)
    [] loader = "add_json_map_field" ->
         CollectionValue("CASS_VALUE_TYPE_MAP", Len(ParseInsitu(text).strings) \div 2,
                         ParseInsitu(text).strings)

\* the shape a JSON loader expects of the document
ExpectedShape(loader) ==
  IF loader = "add_json_list_field" THEN "array" ELSE "object"

=============================================================================
